---- MODULE Spec2Model ----
(***************************************************************************)
(* Epoch transition of the beacon-state-transition package:                *)
(*   beforeProcessEpoch            (allForks/util/epochProcess.ts)          *)
(*   processRegistryUpdates        (allForks/epoch/processRegistryUpdates)  *)
(*   processSlashingsAllForks      (allForks/epoch/processSlashings.ts)     *)
(*   processEffectiveBalanceUpdates                                         *)
(*                                                                         *)
(* Gwei amounts are counted in units of 10^7 Gwei (0.01 ETH): every amount  *)
(* the model uses is a multiple of that unit, and the code only adds,       *)
(* subtracts, compares and floor-divides amounts by amounts, so the         *)
(* results are the code's results divided by the unit.  Validator indices   *)
(* are 1-based here (index i stands for the code's index i - 1).            *)
(***************************************************************************)
EXTENDS Integers, Sequences, FiniteSets, TLC

VARIABLES
    fork,               \* config.getForkName(state.slot)
    currentEpoch,       \* epochCtx.currentShuffling.epoch
    validators,         \* state.validators
    balances,           \* state.balances (the tree)
    slashings,          \* state.slashings
    finalizedEpoch,     \* state.finalizedCheckpoint.epoch
    effectiveBalances,  \* epochCtx.effectiveBalances
    churnLimit,         \* epochCtx.churnLimit
    epochProcess,       \* the IEpochProcess of the running transition
    pc,                 \* the next sub-phase of the transition
    transitions,        \* epoch transitions completed
    participation,      \* state.previousEpochParticipation / currentEpochParticipation
                        \* and state.previousEpochAttestations / currentEpochAttestations
    jf,                 \* justification_bits and the three checkpoints, with their epoch
    slots,              \* a call of processSlots: the states held, target, progress
    gossip,             \* the gossip messages handled so far, with their outcomes
    pool,               \* a call of submitPoolSyncCommitteeSignatures
    rpc,                \* a JsonRpcHttpClient and its fetch calls
    heapdump,           \* getLodestarApi: writingHeapdump and the writeHeapdump calls
    proposing,          \* BlockProposingService: a notifyBlockProductionFn call
    submitted,          \* a call of submitPoolAttestations
    requests            \* a fetchJson call request by request, and the parent signal

\* The state of the epoch transition's sub-phases, and the state of the other
\* components.
epochVars == <<fork, currentEpoch, validators, balances, slashings, finalizedEpoch,
               effectiveBalances, churnLimit, epochProcess, pc, transitions,
               participation>>
apiVars == <<heapdump, proposing, submitted, requests>>
otherVars == <<jf, slots, gossip, pool, rpc, apiVars>>

vars == <<epochVars, otherVars>>

----------------------------------------------------------------------------
(* Parameters (@chainsafe/lodestar-params, minimal preset), in model units. *)

EFFECTIVE_BALANCE_INCREMENT == 100
MAX_EFFECTIVE_BALANCE == 3200
EJECTION_BALANCE == 1600
HYSTERESIS_QUOTIENT == 4
HYSTERESIS_DOWNWARD_MULTIPLIER == 1
HYSTERESIS_UPWARD_MULTIPLIER == 5
PROPORTIONAL_SLASHING_MULTIPLIER == 3
PROPORTIONAL_SLASHING_MULTIPLIER_ALTAIR == 2
EPOCHS_PER_SLASHINGS_VECTOR == 64
MAX_SEED_LOOKAHEAD == 4
MIN_VALIDATOR_WITHDRAWABILITY_DELAY == 256
MIN_PER_EPOCH_CHURN_LIMIT == 4
CHURN_LIMIT_QUOTIENT == 32
FAR_FUTURE_EPOCH == 1000000

(* Bounds of the model. *)
NumValidators == 2      \* registry sizes 0..NumValidators of the general inputs
NumQueued == 5          \* registry size of the activation-queue inputs
NumStakers == 100       \* active validators of the large-stake inputs
FewStakers == 3         \* active validators of the small-stake inputs
MaxTransitions == 3     \* epoch transitions run in a row
InitEpoch == 300        \* epoch of the first transition
MaxEpochs == 7          \* epochs the checkpoints are followed over
MaxStartSlot == 9       \* largest slot of the state given to processSlots
MaxAdvance == 10        \* largest distance of the target slot
MaxMessages == 2        \* gossip messages handled in a row
NumAttesters == 2       \* registry sizes 0..NumAttesters of the participation inputs
MaxCalls == 3           \* writeHeapdump calls
MaxAttestations == 2    \* attestations of one submitPoolAttestations call
MaxProposers == 2       \* proposers of one slot
MaxSlot == 2            \* slots 0..MaxSlot notified to the block service
MaxSignatures == 2      \* signatures of one submitPoolSyncCommitteeSignatures call
MaxUrls == 3            \* longest URL list given to a JsonRpcHttpClient
MaxFetches == 2         \* fetch calls made on one client

----------------------------------------------------------------------------
(* Helpers *)

Min(a, b) == IF a <= b THEN a ELSE b
Max(a, b) == IF a >= b THEN a ELSE b

bigIntMin(a, b) == IF a < b THEN a ELSE b

intDiv(a, b) == a \div b

RECURSIVE SumSeq(_)
SumSeq(s) == IF s = <<>> THEN 0 ELSE Head(s) + SumSeq(Tail(s))

Indices(vals) == 1..Len(vals)

\* Every passing index pushed a second time.
PushedIndices_Twice(vals, passing) ==
    SelectSeq([k \in 1..(2 * Len(vals)) |-> (k + 1) \div 2], LAMBDA i : i \in passing)

\* The indices of vals that are in the set passing, ascending: what a loop
\* "for i = 0..n-1: if test then list.push(i)" builds.
PushedIndices(vals, passing) ==
    SelectSeq([i \in 1..Len(vals) |-> i], LAMBDA i : i \in passing)

SeqToSet(s) == {s[k] : k \in 1..Len(s)}

----------------------------------------------------------------------------
(* util: isActiveValidator, computeActivationExitEpoch, getChurnLimit,      *)
(* decreaseBalance, initiateValidatorExit                                   *)

isActiveValidator(v, epoch) ==
    v.activationEpoch <= epoch /\ epoch < v.exitEpoch

computeActivationExitEpoch(epoch) == epoch + 1 + MAX_SEED_LOOKAHEAD

ActiveCount(vals, epoch) ==
    Cardinality({i \in Indices(vals) : isActiveValidator(vals[i], epoch)})

getChurnLimit(vals, epoch) ==
    Max(MIN_PER_EPOCH_CHURN_LIMIT, intDiv(ActiveCount(vals, epoch), CHURN_LIMIT_QUOTIENT))

\* decreaseBalance(state, index, delta): state.balances only, saturating at 0.
decreaseBalance(bals, index, delta) ==
    [bals EXCEPT ![index] = IF delta > bals[index] THEN 0 ELSE bals[index] - delta]

increaseBalance(bals, index, delta) ==
    [bals EXCEPT ![index] = bals[index] + delta]

\* initiateValidatorExit(state, index): the exit queue epoch is the latest exit
\* epoch already assigned, at least computeActivationExitEpoch(currentEpoch),
\* moved one epoch on when the churn of that epoch is used up.
initiateValidatorExit(vals, index, epoch, churn) ==
    IF vals[index].exitEpoch # FAR_FUTURE_EPOCH THEN vals
    ELSE
      LET exiting == {i \in Indices(vals) : vals[i].exitEpoch # FAR_FUTURE_EPOCH}
          base == computeActivationExitEpoch(epoch)
          queueEpoch ==
              IF \E i \in exiting : vals[i].exitEpoch > base
              THEN CHOOSE e \in {vals[i].exitEpoch : i \in exiting} :
                       \A i \in exiting : vals[i].exitEpoch <= e
              ELSE base
          queueChurn == Cardinality({i \in exiting : vals[i].exitEpoch = queueEpoch})
          exitEpoch == IF queueChurn >= churn THEN queueEpoch + 1 ELSE queueEpoch
      IN [vals EXCEPT ![index].exitEpoch = exitEpoch,
                      ![index].withdrawableEpoch =
                          exitEpoch + MIN_VALIDATOR_WITHDRAWABILITY_DELAY]

----------------------------------------------------------------------------
(* beforeProcessEpoch *)

previousEpoch(epoch) == IF epoch = 0 THEN 0 ELSE epoch - 1

\* The test on the withdrawable epoch left out.
ToSlash_AnySlashed(v, epoch) == v.slashed

\* epochProcess.ts:185-191
ToSlash(v, epoch) ==
    v.slashed /\ epoch + intDiv(EPOCHS_PER_SLASHINGS_VECTOR, 2) = v.withdrawableEpoch

\* A slashed validator eligible up to and including its withdrawable epoch.
EligibleAttester_Inclusive(v, epoch) ==
    \/ isActiveValidator(v, previousEpoch(epoch))
    \/ (v.slashed /\ previousEpoch(epoch) + 1 <= v.withdrawableEpoch)

\* epochProcess.ts:193
EligibleAttester(v, epoch) ==
    \/ isActiveValidator(v, previousEpoch(epoch))
    \/ (v.slashed /\ previousEpoch(epoch) + 1 < v.withdrawableEpoch)

\* The if / else-if ladder of epochProcess.ts:211-248: the list, if any, that
\* the scan pushes the validator's index to.
\* Ejection only strictly below EJECTION_BALANCE.
Bucket_StrictEjection(v, epoch) ==
    IF /\ v.activationEligibilityEpoch = FAR_FUTURE_EPOCH
       /\ v.effectiveBalance = MAX_EFFECTIVE_BALANCE
    THEN "activationQueue"
    ELSE IF /\ v.activationEpoch = FAR_FUTURE_EPOCH
            /\ v.activationEligibilityEpoch <= epoch
    THEN "activation"
    ELSE IF /\ isActiveValidator(v, epoch)
            /\ v.exitEpoch = FAR_FUTURE_EPOCH
            /\ v.effectiveBalance < EJECTION_BALANCE
    THEN "eject"
    ELSE "none"

\* The second rung taken by every validator whose eligibility epoch has come,
\* activated or not.
Bucket_ActivationOfActive(v, epoch) ==
    IF /\ v.activationEligibilityEpoch = FAR_FUTURE_EPOCH
       /\ v.effectiveBalance = MAX_EFFECTIVE_BALANCE
    THEN "activationQueue"
    ELSE IF v.activationEligibilityEpoch <= epoch
    THEN "activation"
    ELSE IF /\ isActiveValidator(v, epoch)
            /\ v.exitEpoch = FAR_FUTURE_EPOCH
            /\ v.effectiveBalance <= EJECTION_BALANCE
    THEN "eject"
    ELSE "none"

Bucket(v, epoch) ==
    IF /\ v.activationEligibilityEpoch = FAR_FUTURE_EPOCH
       /\ v.effectiveBalance = MAX_EFFECTIVE_BALANCE
    THEN "activationQueue"
    ELSE IF /\ v.activationEpoch = FAR_FUTURE_EPOCH
            /\ v.activationEligibilityEpoch <= epoch
    THEN "activation"
    ELSE IF /\ isActiveValidator(v, epoch)
            /\ v.exitEpoch = FAR_FUTURE_EPOCH
            /\ v.effectiveBalance <= EJECTION_BALANCE
    THEN "eject"
    ELSE "none"

\* The comparator of indicesEligibleForActivation.sort (epochProcess.ts:265-267).
CompareActivation(vals, a, b) ==
    LET d == vals[a].activationEligibilityEpoch - vals[b].activationEligibilityEpoch
    IN IF d # 0 THEN d ELSE a - b

RECURSIVE InsertSorted(_, _, _)
InsertSorted(vals, sorted, x) ==
    IF sorted = <<>> THEN <<x>>
    ELSE IF CompareActivation(vals, x, Head(sorted)) < 0 THEN <<x>> \o sorted
    ELSE <<Head(sorted)>> \o InsertSorted(vals, Tail(sorted), x)

\* The scan order kept: the sort left out.
SortActivation_Unsorted(vals, list) == list

RECURSIVE SortActivation(_, _)
SortActivation(vals, list) ==
    IF list = <<>> THEN <<>>
    ELSE InsertSorted(vals, SortActivation(vals, Tail(list)), Head(list))

\* The floor at one increment left out.
TotalActiveStake_NoFloor(vals, epoch) ==
    SumSeq([i \in 1..Len(vals) |->
        IF isActiveValidator(vals[i], epoch) THEN vals[i].effectiveBalance ELSE 0])

\* epochProcess.ts:197-201 and 256-258
TotalActiveStake(vals, epoch) ==
    LET total == SumSeq([i \in 1..Len(vals) |->
                    IF isActiveValidator(vals[i], epoch) THEN vals[i].effectiveBalance ELSE 0])
    IN IF total < EFFECTIVE_BALANCE_INCREMENT THEN EFFECTIVE_BALANCE_INCREMENT ELSE total

\* createIAttesterStatus and the flags set in the scan (epochProcess.ts:183-201)
AttesterStatus(v, epoch) ==
    [flags |-> (IF v.slashed THEN {} ELSE {"UNSLASHED"})
               \cup (IF EligibleAttester(v, epoch) THEN {"ELIGIBLE_ATTESTER"} ELSE {}),
     active |-> isActiveValidator(v, epoch)]

\* The participation of one validator in one epoch: the timely bits set.
Timely == {"timelySource", "timelyTarget", "timelyHead"}

\* A pending attestation of a phase 0 state, by what statusProcessEpoch
\* derives from it: the attesting indices, whether its target root is the
\* block root of the epoch, and whether its head root is that of its slot.
PendingAttestation(attesters, target, head) ==
    [attesters |-> attesters, target |-> target, head |-> head]

NoParticipation ==
    [previousEpochParticipation |-> <<>>, currentEpochParticipation |-> <<>>,
     previousEpochAttestations |-> <<>>, currentEpochAttestations |-> <<>>]

\* statusProcessEpoch (phase0/epoch/processPendingAttestations): every
\* attester of an attestation gets the source flag, the target flag when the
\* target matches, the head flag when target and head match.
statusProcessEpoch(i, attestations, sourceFlag, targetFlag, headFlag) ==
    UNION { {sourceFlag}
            \cup (IF attestations[k].target THEN {targetFlag} ELSE {})
            \cup (IF attestations[k].target /\ attestations[k].head THEN {headFlag} ELSE {}) :
            k \in {n \in 1..Len(attestations) : i \in attestations[n].attesters} }

\* The target and head bits exchanged.
participationFlags_SwappedTargetHead(status, sourceFlag, targetFlag, headFlag) ==
    (IF "timelySource" \in status THEN {sourceFlag} ELSE {})
    \cup (IF "timelyHead" \in status THEN {targetFlag} ELSE {})
    \cup (IF "timelyTarget" \in status THEN {headFlag} ELSE {})

\* epochProcess.ts:289-300: the flags or-ed into statuses[i].flags for one
\* entry of a participation list.
participationFlags(status, sourceFlag, targetFlag, headFlag) ==
    (IF "timelySource" \in status THEN {sourceFlag} ELSE {})
    \cup (IF "timelyTarget" \in status THEN {targetFlag} ELSE {})
    \cup (IF "timelyHead" \in status THEN {headFlag} ELSE {})

\* epochProcess.ts:269-301
attestingFlags(forkName, part, i) ==
    IF forkName = "phase0"
    THEN statusProcessEpoch(i, part.previousEpochAttestations,
                            "PREV_SOURCE", "PREV_TARGET", "PREV_HEAD")
         \cup statusProcessEpoch(i, part.currentEpochAttestations,
                                 "CURR_SOURCE", "CURR_TARGET", "CURR_HEAD")
    ELSE (IF i <= Len(part.previousEpochParticipation)
          THEN participationFlags(part.previousEpochParticipation[i],
                                  "PREV_SOURCE", "PREV_TARGET", "PREV_HEAD")
          ELSE {})
         \cup (IF i <= Len(part.currentEpochParticipation)
               THEN participationFlags(part.currentEpochParticipation[i],
                                       "CURR_SOURCE", "CURR_TARGET", "CURR_HEAD")
               ELSE {})

\* hasMarkers(flags, markers): all the marker bits are set.
hasMarkers(flags, markers) == markers \subseteq flags

\* Every status with the participation flag counted, slashed or not.
unslashedStake_AnyStatus(statuses, effBals, flag) ==
    LET total == SumSeq([i \in 1..Len(statuses) |->
                    IF hasMarkers(statuses[i].flags, {flag})
                    THEN effBals[i] ELSE 0])
    IN IF total < EFFECTIVE_BALANCE_INCREMENT THEN EFFECTIVE_BALANCE_INCREMENT ELSE total

\* epochProcess.ts:303-338, for one of the four stakes: the effective
\* balances of epochCtx.effectiveBalances are summed.
unslashedStake(statuses, effBals, flag) ==
    LET total == SumSeq([i \in 1..Len(statuses) |->
                    IF hasMarkers(statuses[i].flags, {flag, "UNSLASHED"})
                    THEN effBals[i] ELSE 0])
    IN IF total < EFFECTIVE_BALANCE_INCREMENT THEN EFFECTIVE_BALANCE_INCREMENT ELSE total

\* The statuses after the scan and the participation attribution.
Statuses(forkName, vals, epoch, part) ==
    [i \in 1..Len(vals) |->
        [AttesterStatus(vals[i], epoch) EXCEPT
            !.flags = @ \cup attestingFlags(forkName, part, i)]]

beforeProcessEpoch(forkName, vals, bals, epoch, effBals, part) ==
    [prevEpoch |-> previousEpoch(epoch),
     currentEpoch |-> epoch,
     totalActiveStake |-> TotalActiveStake(vals, epoch),
     indicesToSlash |-> PushedIndices(vals, {i \in Indices(vals) : ToSlash(vals[i], epoch)}),
     indicesEligibleForActivationQueue |->
         PushedIndices(vals, {i \in Indices(vals) : Bucket(vals[i], epoch) = "activationQueue"}),
     indicesEligibleForActivation |->
         SortActivation(vals,
             PushedIndices(vals, {i \in Indices(vals) : Bucket(vals[i], epoch) = "activation"})),
     indicesToEject |-> PushedIndices(vals, {i \in Indices(vals) : Bucket(vals[i], epoch) = "eject"}),
     nextEpochActiveValidatorIndices |->
         PushedIndices(vals, {i \in Indices(vals) : isActiveValidator(vals[i], epoch + 1)}),
     prevEpochUnslashedStake |->
         [sourceStake |-> unslashedStake(Statuses(forkName, vals, epoch, part),
                                         effBals, "PREV_SOURCE"),
          targetStake |-> unslashedStake(Statuses(forkName, vals, epoch, part),
                                         effBals, "PREV_TARGET"),
          headStake |-> unslashedStake(Statuses(forkName, vals, epoch, part),
                                       effBals, "PREV_HEAD")],
     currEpochUnslashedTargetStake |->
         unslashedStake(Statuses(forkName, vals, epoch, part), effBals, "CURR_TARGET"),
     statusesFlat |-> Statuses(forkName, vals, epoch, part),
     balancesFlat |-> bals,
     validators |-> vals]

\* No transition is running.
NoEpochProcess == beforeProcessEpoch("phase0", <<>>, <<>>, 0, <<>>, NoParticipation)

----------------------------------------------------------------------------
(* processRegistryUpdates *)

\* processRegistryUpdates.ts:21-26
RECURSIVE EjectAll(_, _, _, _)
EjectAll(vals, list, epoch, churn) ==
    IF list = <<>> THEN vals
    ELSE EjectAll(initiateValidatorExit(vals, Head(list), epoch, churn),
                  Tail(list), epoch, churn)

\* The epoch written to activationEpoch instead of activationEligibilityEpoch.
QueueAll_WrongField(vals, list, epoch) ==
    [i \in 1..Len(vals) |->
        IF i \in SeqToSet(list) THEN [vals[i] EXCEPT !.activationEpoch = epoch + 1]
        ELSE vals[i]]

\* processRegistryUpdates.ts:28-33
RECURSIVE QueueAll(_, _, _)
QueueAll(vals, list, epoch) ==
    IF list = <<>> THEN vals
    ELSE QueueAll([vals EXCEPT ![Head(list)].activationEligibilityEpoch = epoch + 1],
                  Tail(list), epoch)

\* processRegistryUpdates.ts:37-45: the loop over the slice, left at the first
\* index whose activationEligibilityEpoch, read from epochProcess.validators,
\* is past the finalized epoch.
\* The finality condition left out.
RECURSIVE ActivateUntilBreak_NoFinality(_, _, _, _, _)
ActivateUntilBreak_NoFinality(vals, flat, list, finalityEpoch, epoch) ==
    IF list = <<>> THEN vals
    ELSE ActivateUntilBreak_NoFinality(
             [vals EXCEPT ![Head(list)].activationEpoch = computeActivationExitEpoch(epoch)],
             flat, Tail(list), finalityEpoch, epoch)

\* The activation taking effect at the next epoch, without the lookahead.
RECURSIVE ActivateUntilBreak_NextEpoch(_, _, _, _, _)
ActivateUntilBreak_NextEpoch(vals, flat, list, finalityEpoch, epoch) ==
    IF list = <<>> THEN vals
    ELSE IF flat[Head(list)].activationEligibilityEpoch > finalityEpoch THEN vals
    ELSE ActivateUntilBreak_NextEpoch(
             [vals EXCEPT ![Head(list)].activationEpoch = epoch + 1],
             flat, Tail(list), finalityEpoch, epoch)

RECURSIVE ActivateUntilBreak(_, _, _, _, _)
ActivateUntilBreak(vals, flat, list, finalityEpoch, epoch) ==
    IF list = <<>> THEN vals
    ELSE IF flat[Head(list)].activationEligibilityEpoch > finalityEpoch THEN vals
    ELSE ActivateUntilBreak(
             [vals EXCEPT ![Head(list)].activationEpoch = computeActivationExitEpoch(epoch)],
             flat, Tail(list), finalityEpoch, epoch)

\* Array.prototype.slice(0, n)
SliceTo(list, n) == SubSeq(list, 1, Min(n, Len(list)))

\* The finality condition evaluated against a finalized epoch that the
\* finalization of the running transition has not moved on: three epochs
\* back at most.
processRegistryUpdates_StaleFinality(vals, ep, shufflingEpoch, churn, finalityEpoch) ==
    LET ejected == EjectAll(vals, ep.indicesToEject, shufflingEpoch, churn)
        queued == QueueAll(ejected, ep.indicesEligibleForActivationQueue, shufflingEpoch)
    IN ActivateUntilBreak(queued, ep.validators,
                          SliceTo(ep.indicesEligibleForActivation, churn),
                          Min(finalityEpoch, ep.currentEpoch - 3), ep.currentEpoch)

\* The validators queued by the running transition dequeued with the others,
\* whatever the finalized epoch.
processRegistryUpdates_ActivatesQueued(vals, ep, shufflingEpoch, churn, finalityEpoch) ==
    LET ejected == EjectAll(vals, ep.indicesToEject, shufflingEpoch, churn)
        queued == QueueAll(ejected, ep.indicesEligibleForActivationQueue, shufflingEpoch)
        activated == ActivateUntilBreak(queued, ep.validators,
                                        SliceTo(ep.indicesEligibleForActivation, churn),
                                        finalityEpoch, ep.currentEpoch)
    IN ActivateUntilBreak_NoFinality(activated, ep.validators,
                                     ep.indicesEligibleForActivationQueue,
                                     finalityEpoch, ep.currentEpoch)

processRegistryUpdates(vals, ep, shufflingEpoch, churn, finalityEpoch) ==
    LET ejected == EjectAll(vals, ep.indicesToEject, shufflingEpoch, churn)
        queued == QueueAll(ejected, ep.indicesEligibleForActivationQueue, shufflingEpoch)
    IN ActivateUntilBreak(queued, ep.validators,
                          SliceTo(ep.indicesEligibleForActivation, churn),
                          finalityEpoch, ep.currentEpoch)

----------------------------------------------------------------------------
(* processSlashingsAllForks *)

\* The multipliers of the two forks exchanged.
SlashingPenalty_SwappedMultiplier(forkName, effectiveBalance, totalSlashings, totalBalance) ==
    LET proportionalSlashingMultiplier ==
            IF forkName = "phase0" THEN PROPORTIONAL_SLASHING_MULTIPLIER_ALTAIR
            ELSE PROPORTIONAL_SLASHING_MULTIPLIER
        adjustedTotalSlashingBalance ==
            bigIntMin(totalSlashings * proportionalSlashingMultiplier, totalBalance)
        increment == EFFECTIVE_BALANCE_INCREMENT
        penaltyNumerator == (effectiveBalance \div increment) * adjustedTotalSlashingBalance
    IN (penaltyNumerator \div totalBalance) * increment

\* The effective balance not divided into increments before the multiplication.
SlashingPenalty_NoIncrements(forkName, effectiveBalance, totalSlashings, totalBalance) ==
    LET proportionalSlashingMultiplier ==
            IF forkName = "phase0" THEN PROPORTIONAL_SLASHING_MULTIPLIER
            ELSE PROPORTIONAL_SLASHING_MULTIPLIER_ALTAIR
        adjustedTotalSlashingBalance ==
            bigIntMin(totalSlashings * proportionalSlashingMultiplier, totalBalance)
    IN (effectiveBalance * adjustedTotalSlashingBalance) \div totalBalance

\* processSlashings.ts:38-47
SlashingPenalty(forkName, effectiveBalance, totalSlashings, totalBalance) ==
    LET proportionalSlashingMultiplier ==
            IF forkName = "phase0" THEN PROPORTIONAL_SLASHING_MULTIPLIER
            ELSE PROPORTIONAL_SLASHING_MULTIPLIER_ALTAIR
        adjustedTotalSlashingBalance ==
            bigIntMin(totalSlashings * proportionalSlashingMultiplier, totalBalance)
        increment == EFFECTIVE_BALANCE_INCREMENT
        penaltyNumerator == (effectiveBalance \div increment) * adjustedTotalSlashingBalance
    IN (penaltyNumerator \div totalBalance) * increment

\* The penalty subtracted from the balance as it is.
SlashAll_PlainSubtraction(bals, list, forkName, effBals, totalSlashings, totalBalance) ==
    [i \in 1..Len(bals) |->
        IF i \in SeqToSet(list)
        THEN bals[i] - SlashingPenalty(forkName, effBals[i], totalSlashings, totalBalance)
        ELSE bals[i]]

\* processSlashings.ts:43-52
RECURSIVE SlashAll(_, _, _, _, _, _)
SlashAll(bals, list, forkName, effBals, totalSlashings, totalBalance) ==
    IF list = <<>> THEN bals
    ELSE SlashAll(
             decreaseBalance(bals, Head(list),
                 SlashingPenalty(forkName, effBals[Head(list)], totalSlashings, totalBalance)),
             Tail(list), forkName, effBals, totalSlashings, totalBalance)

\* The loop run over the whole registry once there is an index to slash.
processSlashingsAllForks_WholeRegistry(forkName, bals, slash, effBals, ep) ==
    IF Len(ep.indicesToSlash) = 0 THEN bals
    ELSE SlashAll(bals, [i \in 1..Len(bals) |-> i], forkName, effBals,
                  SumSeq(slash), ep.totalActiveStake)

\* The state.balances that processSlashingsAllForks leaves.
processSlashingsAllForks(forkName, bals, slash, effBals, ep) ==
    IF Len(ep.indicesToSlash) = 0 THEN bals
    ELSE SlashAll(bals, ep.indicesToSlash, forkName, effBals,
                  SumSeq(slash), ep.totalActiveStake)

----------------------------------------------------------------------------
(* processEffectiveBalanceUpdates *)

HYSTERESIS_INCREMENT == EFFECTIVE_BALANCE_INCREMENT \div HYSTERESIS_QUOTIENT
DOWNWARD_THRESHOLD == HYSTERESIS_INCREMENT * HYSTERESIS_DOWNWARD_MULTIPLIER
UPWARD_THRESHOLD == HYSTERESIS_INCREMENT * HYSTERESIS_UPWARD_MULTIPLIER

\* The two thresholds exchanged.
UpdatedEffectiveBalance_SwappedThresholds(effectiveBalance, balance) ==
    IF \/ effectiveBalance > balance + UPWARD_THRESHOLD
       \/ (/\ effectiveBalance < MAX_EFFECTIVE_BALANCE
           /\ effectiveBalance < balance - DOWNWARD_THRESHOLD)
    THEN bigIntMin(balance - (balance % EFFECTIVE_BALANCE_INCREMENT), MAX_EFFECTIVE_BALANCE)
    ELSE effectiveBalance

\* The new value not floored to the increment.
UpdatedEffectiveBalance_NotFloored(effectiveBalance, balance) ==
    IF \/ effectiveBalance > balance + DOWNWARD_THRESHOLD
       \/ (/\ effectiveBalance < MAX_EFFECTIVE_BALANCE
           /\ effectiveBalance < balance - UPWARD_THRESHOLD)
    THEN bigIntMin(balance, MAX_EFFECTIVE_BALANCE)
    ELSE effectiveBalance

\* balance - UPWARD_THRESHOLD in unsigned arithmetic: a negative difference
\* wraps around to a large number.
UpdatedEffectiveBalance_Unsigned(effectiveBalance, balance) ==
    IF \/ effectiveBalance > balance + DOWNWARD_THRESHOLD
       \/ (/\ effectiveBalance < MAX_EFFECTIVE_BALANCE
           /\ effectiveBalance < (balance - UPWARD_THRESHOLD) % 1073741824)
    THEN bigIntMin(balance - (balance % EFFECTIVE_BALANCE_INCREMENT), MAX_EFFECTIVE_BALANCE)
    ELSE effectiveBalance

\* epochProcess.ts:393-401, for one validator: bigint arithmetic, so
\* balance - UPWARD_THRESHOLD may be negative.
UpdatedEffectiveBalance(effectiveBalance, balance) ==
    IF \/ effectiveBalance > balance + DOWNWARD_THRESHOLD
       \/ (/\ effectiveBalance < MAX_EFFECTIVE_BALANCE
           /\ effectiveBalance < balance - UPWARD_THRESHOLD)
    THEN bigIntMin(balance - (balance % EFFECTIVE_BALANCE_INCREMENT), MAX_EFFECTIVE_BALANCE)
    ELSE effectiveBalance

\* epochProcess.ts:391: epochProcess.balances ?? state.balances.  The flat
\* balances array of the summary (declared as balancesFlat, epochProcess.ts:136)
\* is built by beforeProcessEpoch (epochProcess.ts:164) and is never undefined
\* afterwards, so the flat array is the one iterated (epochProcess.ts:66: "In
\* processEffectiveBalanceUpdates() read from flat balances"); the tree
\* state.balances would be read only for a summary without that array.
BalancesRead(ep, bals) == ep.balancesFlat

processEffectiveBalanceUpdates(vals, bals, ep) ==
    [i \in 1..Len(vals) |->
        IF i <= Len(BalancesRead(ep, bals))
        THEN [vals[i] EXCEPT !.effectiveBalance =
                 UpdatedEffectiveBalance(ep.validators[i].effectiveBalance,
                                         BalancesRead(ep, bals)[i])]
        ELSE vals[i]]

----------------------------------------------------------------------------
(* processJustificationAndFinalization: justification_bits (bit 0 = current   *)
(* epoch) and the epochs of the three checkpoints                            *)

GENESIS_EPOCH == 0

GenesisCheckpoints ==
    [epoch |-> GENESIS_EPOCH,
     justificationBits |-> <<FALSE, FALSE, FALSE, FALSE>>,
     previousJustified |-> GENESIS_EPOCH,
     currentJustified |-> GENESIS_EPOCH,
     finalized |-> GENESIS_EPOCH]

\* The bits shifted by one epoch: bit 0 cleared, bit k + 1 takes bit k.
ShiftBits(bits) == <<FALSE, bits[1], bits[2], bits[3]>>

\* The justified epoch after the two supermajority tests.
currentJustifiedAfter(j, prevSupermajority, currSupermajority) ==
    IF currSupermajority THEN j.epoch
    ELSE IF prevSupermajority THEN previousEpoch(j.epoch)
    ELSE j.currentJustified

\* The finalized epoch by the 4-bit rule, from the bits after the update and
\* the justified checkpoints of before it.
finalizedAfter(j, bits) ==
    LET r1 == IF bits[2] /\ bits[3] /\ bits[4] /\ j.previousJustified + 3 = j.epoch
              THEN j.previousJustified ELSE j.finalized
        r2 == IF bits[2] /\ bits[3] /\ j.previousJustified + 2 = j.epoch
              THEN j.previousJustified ELSE r1
        r3 == IF bits[1] /\ bits[2] /\ bits[3] /\ j.currentJustified + 2 = j.epoch
              THEN j.currentJustified ELSE r2
    IN IF bits[1] /\ bits[2] /\ j.currentJustified + 1 = j.epoch
       THEN j.currentJustified ELSE r3

\* previous_justified_checkpoint not replaced by the current one.
processJustificationAndFinalization_NoRotation(j, prevSupermajority, currSupermajority) ==
    IF j.epoch <= GENESIS_EPOCH + 1 THEN j
    ELSE LET shifted == ShiftBits(j.justificationBits)
             bits == <<currSupermajority, shifted[2] \/ prevSupermajority,
                       shifted[3], shifted[4]>>
         IN [epoch |-> j.epoch,
             justificationBits |-> bits,
             previousJustified |-> j.previousJustified,
             currentJustified |->
                 currentJustifiedAfter(j, prevSupermajority, currSupermajority),
             finalized |-> finalizedAfter(j, bits)]

\* Skipped entirely when current_epoch <= GENESIS_EPOCH + 1.
processJustificationAndFinalization(j, prevSupermajority, currSupermajority) ==
    IF j.epoch <= GENESIS_EPOCH + 1 THEN j
    ELSE LET shifted == ShiftBits(j.justificationBits)
             bits == <<currSupermajority, shifted[2] \/ prevSupermajority,
                       shifted[3], shifted[4]>>
         IN [epoch |-> j.epoch,
             justificationBits |-> bits,
             previousJustified |-> j.currentJustified,
             currentJustified |->
                 currentJustifiedAfter(j, prevSupermajority, currSupermajority),
             finalized |-> finalizedAfter(j, bits)]

----------------------------------------------------------------------------
(* processSlots: the states are objects of a heap, named by reference       *)

SLOTS_PER_EPOCH == 8

\* A state as processSlots sees it.
SlotState(slot, vals, bals) == [slot |-> slot, validators |-> vals, balances |-> bals]

NoProcessSlots ==
    [heap |-> <<>>, input |-> 0, post |-> 0, target |-> 0, given |-> SlotState(0, <<>>, <<>>),
     epochsRun |-> <<>>, error |-> "none", pc |-> "idle"]

\* state.clone() hands back the state itself.
clone_Alias(heap, ref) == [heap |-> heap, ref |-> ref]

\* state.clone(): a new object, equal to the one cloned.
clone(heap, ref) == [heap |-> Append(heap, heap[ref]), ref |-> Len(heap) + 1]

\* The epoch transition as far as a caller of processSlots sees it: balances
\* move by a penalty, effective balances follow.
processEpoch(st) ==
    LET bals == [i \in 1..Len(st.balances) |-> Max(0, st.balances[i] - 1)]
    IN [st EXCEPT !.balances = bals,
                  !.validators = [i \in 1..Len(st.validators) |->
                      [st.validators[i] EXCEPT !.effectiveBalance =
                          UpdatedEffectiveBalance(st.validators[i].effectiveBalance, bals[i])]]]

\* The epoch transition run at the first slot of an epoch instead of the last.
epochDue_FirstSlot(slot) == slot % SLOTS_PER_EPOCH = 0

\* Whether the round that leaves this slot runs the epoch transition.
epochDue(slot) == (slot + 1) % SLOTS_PER_EPOCH = 0

\* One round of the loop: the epoch transition at the last slot of an epoch,
\* then the slot counter.
processSlot(st) ==
    [(IF epochDue(st.slot) THEN processEpoch(st) ELSE st) EXCEPT !.slot = st.slot + 1]

\* The test on the target slot off by one: the state's own slot is let through.
slotBehind_Strict(slot, target) == target < slot

slotBehind(slot, target) == target <= slot

----------------------------------------------------------------------------
(* getGossipHandlers: each handler validates, then handles.  A handler is    *)
(* given by what it leaves behind for one message: how its promise settled,  *)
(* the error thrown, the calls of chain.receiveBlock, whether the object was *)
(* added to its pool or db, whether an error was logged.                     *)

\* Outcomes of the chain/validation functions.
BlockValidations == {"ok", "FUTURE_SLOT", "PARENT_UNKNOWN", "INVALID"}
Validations == {"ok", "INVALID"}

Handled(type, validation, handlingFails, settled, thrown, receiveBlock, added, logged) ==
    [type |-> type, validation |-> validation, handlingFails |-> handlingFails,
     settled |-> settled, thrown |-> thrown, receiveBlock |-> receiveBlock,
     added |-> added, logged |-> logged]

\* chain.ts:238-248: the block is handed to the block processor, whose
\* promise gets a catch: a job that fails leaves nothing for the caller to
\* see, and receiveBlock returns without throwing.
receiveBlock(jobFails) ==
    [threw |-> FALSE, imported |-> ~jobFails]

\* The block handed to the chain whatever the validation error.
beacon_block_ReceivesInvalid(validation, handlingFails) ==
    IF validation = "ok"
    THEN Handled("beacon_block", validation, handlingFails, "resolved", "none",
                 1, receiveBlock(handlingFails).imported, receiveBlock(handlingFails).threw)
    ELSE Handled("beacon_block", validation, handlingFails, "rejected",
                 IF receiveBlock(handlingFails).threw THEN "HandlingError" ELSE validation,
                 1, receiveBlock(handlingFails).imported, FALSE)

\* handlers/index.ts:54-90
beacon_block(validation, handlingFails) ==
    IF validation = "ok"
    THEN Handled("beacon_block", validation, handlingFails, "resolved", "none",
                 1, receiveBlock(handlingFails).imported, receiveBlock(handlingFails).threw)
    ELSE IF validation \in {"FUTURE_SLOT", "PARENT_UNKNOWN"}
    THEN Handled("beacon_block", validation, handlingFails, "rejected",
                 IF receiveBlock(handlingFails).threw THEN "HandlingError" ELSE validation,
                 1, receiveBlock(handlingFails).imported, FALSE)
    ELSE Handled("beacon_block", validation, handlingFails,
                 "rejected", validation, 0, FALSE, FALSE)

\* handlers/index.ts:92-126: the pool's add is called outside any try.
beacon_aggregate_and_proof(validation, handlingFails) ==
    IF validation # "ok"
    THEN Handled("beacon_aggregate_and_proof", validation, handlingFails,
                 "rejected", validation, 0, FALSE, FALSE)
    ELSE IF handlingFails
    THEN Handled("beacon_aggregate_and_proof", validation, handlingFails,
                 "rejected", "HandlingError", 0, FALSE, FALSE)
    ELSE Handled("beacon_aggregate_and_proof", validation, handlingFails,
                 "resolved", "none", 0, TRUE, FALSE)

\* A handler whose handling step is inside try / catch, or is a promise with
\* a catch: a failure is logged.
GuardedHandler(type, validation, handlingFails) ==
    IF validation # "ok"
    THEN Handled(type, validation, handlingFails, "rejected", validation, 0, FALSE, FALSE)
    ELSE Handled(type, validation, handlingFails,
                 "resolved", "none", 0, ~handlingFails, handlingFails)

\* handlers/index.ts:128-148
beacon_attestation(validation, shouldProcess, handlingFails) ==
    IF validation = "ok" /\ ~shouldProcess
    THEN Handled("beacon_attestation", validation, handlingFails,
                 "resolved", "none", 0, FALSE, FALSE)
    ELSE GuardedHandler("beacon_attestation", validation, handlingFails)

\* handlers/index.ts:150-158
voluntary_exit(validation, handlingFails) ==
    GuardedHandler("voluntary_exit", validation, handlingFails)

\* handlers/index.ts:160-168
proposer_slashing(validation, handlingFails) ==
    GuardedHandler("proposer_slashing", validation, handlingFails)

\* handlers/index.ts:170-178
attester_slashing(validation, handlingFails) ==
    GuardedHandler("attester_slashing", validation, handlingFails)

\* handlers/index.ts:180-190
sync_committee_contribution_and_proof(validation, handlingFails) ==
    GuardedHandler("sync_committee_contribution_and_proof", validation, handlingFails)

\* handlers/index.ts:192-202
sync_committee(validation, handlingFails) ==
    GuardedHandler("sync_committee", validation, handlingFails)

----------------------------------------------------------------------------
(* getBeaconPoolApi: submitPoolSyncCommitteeSignatures                       *)

SYNC_COMMITTEE_SIZE == 32
SYNC_COMMITTEE_SUBNET_COUNT == 4

\* api/impl/beacon/pool/index.ts:114
SYNC_COMMITTEE_SUBNET_SIZE == SYNC_COMMITTEE_SIZE \div SYNC_COMMITTEE_SUBNET_COUNT

\* pool/index.ts:134-135
subnetOf(indexInCommittee) == indexInCommittee \div SYNC_COMMITTEE_SUBNET_SIZE
indexInSubCommitteeOf(indexInCommittee) == indexInCommittee % SYNC_COMMITTEE_SUBNET_SIZE

\* A submitted signature, by what its processing meets: the positions of its
\* validator in the sync committee (none: not a member), the outcome of
\* validateSyncCommitteeSigOnly, the position (0: none) at which
\* chain.syncCommitteeMessagePool.add throws, as the gossip handler expects
\* it to (handlers/index.ts:197-201), and the position (0: none) at which
\* network.gossip.publishSyncCommitteeSignature rejects.
SyncSignature(indexes, validation, addThrows, publishFails) ==
    [indexesInCommittee |-> indexes, validation |-> validation,
     addThrows |-> addThrows, publishFails |-> publishFails]

\* pool/index.ts:131-139: the positions the mapped function got through the
\* add for, those it called publish for, and whether the Promise.all of the
\* map rejected.
perPosition(sig) ==
    LET ks == 1..Len(sig.indexesInCommittee)
        addedAt == {k \in ks : sig.addThrows # k}
    IN [added |-> {<<subnetOf(sig.indexesInCommittee[k]),
                     indexInSubCommitteeOf(sig.indexesInCommittee[k])>> : k \in addedAt},
        published |-> {subnetOf(sig.indexesInCommittee[k]) : k \in addedAt},
        error |-> \E k \in ks : sig.addThrows = k \/ sig.publishFails = k]

\* pool/index.ts:119-148: the function mapped over the signatures, for one
\* signature.
perSignature(sig) ==
    IF Len(sig.indexesInCommittee) = 0
    THEN [added |-> {}, published |-> {}, error |-> FALSE]
    ELSE IF sig.validation # "ok"
    THEN [added |-> {}, published |-> {}, error |-> TRUE]
    ELSE perPosition(sig)

\* pool/index.ts:151-155
submitThrows(errors) ==
    IF Len(errors) > 1 THEN "multiple"
    ELSE IF Len(errors) = 1 THEN "single"
    ELSE "none"

NoSubmit ==
    [signatures |-> <<>>, settled |-> {}, added |-> {}, published |-> {},
     errors |-> <<>>, thrown |-> "none", pc |-> "idle"]

----------------------------------------------------------------------------
(* JsonRpcHttpClient (eth1/provider/jsonRpcHttpClient.ts)                    *)

\* What a request to one URL comes to: a response with a result, a response
\* without one (a JSON RPC error object), or an error thrown by
\* fetchJsonOneUrl.
RequestErrors == {"HttpRpcError", "NetworkError"}
RequestOutcomes == {"result", "noResult"} \cup RequestErrors

\* opts.shouldNotFallback: absent, or a predicate on errors, given by the
\* errors it returns true for.
NoShouldNotFallback == [present |-> FALSE, stops |-> {}]
ShouldNotFallback(stops) == [present |-> TRUE, stops |-> stops]

\* this.opts.shouldNotFallback?.(e)
shouldNotFallback(opts, error) == opts.present /\ error \in opts.stops

\* jsonRpcHttpClient.ts:36-46
constructorThrows(urls) ==
    \/ Len(urls) = 0
    \/ \E i \in 1..Len(urls) : urls[i] = ""

\* How a call settled: the URLs contacted, in order; whether the call
\* returned or threw; the URL whose response or error came out, and which.
Settled(contacted, settled, from, value) ==
    [contacted |-> contacted, settled |-> settled, from |-> from, value |-> value]

NoError == [from |-> 0, value |-> "none"]

\* The error of an earlier URL is kept when a later one fails.
RECURSIVE fetchJson_FirstError(_, _, _, _, _, _)
fetchJson_FirstError(urls, opts, outcomes, k, lastError, contacted) ==
    IF k > Len(urls)
    THEN IF lastError # NoError
         THEN Settled(contacted, "thrown", lastError.from, lastError.value)
         ELSE IF Len(urls) = 0 THEN Settled(contacted, "thrown", 0, "No url provided")
         ELSE Settled(contacted, "thrown", 0, "Unknown error")
    ELSE IF urls[k] = ""
    THEN IF shouldNotFallback(opts, "EmptyUrl")
         THEN Settled(contacted, "thrown", k, "EmptyUrl")
         ELSE fetchJson_FirstError(urls, opts, outcomes, k + 1,
                  IF lastError = NoError THEN [from |-> k, value |-> "EmptyUrl"]
                  ELSE lastError, contacted)
    ELSE IF outcomes[k] \notin RequestErrors
    THEN Settled(Append(contacted, k), "returned", k, outcomes[k])
    ELSE IF shouldNotFallback(opts, outcomes[k])
    THEN Settled(Append(contacted, k), "thrown", k, outcomes[k])
    ELSE fetchJson_FirstError(urls, opts, outcomes, k + 1,
             IF lastError = NoError THEN [from |-> k, value |-> outcomes[k]]
             ELSE lastError, Append(contacted, k))

\* shouldNotFallback never asked.
RECURSIVE fetchJson_AlwaysFallback(_, _, _, _, _, _)
fetchJson_AlwaysFallback(urls, opts, outcomes, k, lastError, contacted) ==
    IF k > Len(urls)
    THEN IF lastError # NoError
         THEN Settled(contacted, "thrown", lastError.from, lastError.value)
         ELSE IF Len(urls) = 0 THEN Settled(contacted, "thrown", 0, "No url provided")
         ELSE Settled(contacted, "thrown", 0, "Unknown error")
    ELSE IF urls[k] = ""
    THEN fetchJson_AlwaysFallback(urls, opts, outcomes, k + 1,
             [from |-> k, value |-> "EmptyUrl"], contacted)
    ELSE IF outcomes[k] \notin RequestErrors
    THEN Settled(Append(contacted, k), "returned", k, outcomes[k])
    ELSE fetchJson_AlwaysFallback(urls, opts, outcomes, k + 1,
             [from |-> k, value |-> outcomes[k]], Append(contacted, k))

\* jsonRpcHttpClient.ts:70-92, from the k-th URL on: the loop over this.urls
\* and the throw that follows it.  fetchJsonOneUrl throws on an empty URL
\* before any request is made (jsonRpcHttpClient.ts:100).
RECURSIVE fetchJson(_, _, _, _, _, _)
fetchJson(urls, opts, outcomes, k, lastError, contacted) ==
    IF k > Len(urls)
    THEN IF lastError # NoError
         THEN Settled(contacted, "thrown", lastError.from, lastError.value)
         ELSE IF Len(urls) = 0 THEN Settled(contacted, "thrown", 0, "No url provided")
         ELSE Settled(contacted, "thrown", 0, "Unknown error")
    ELSE IF urls[k] = ""
    THEN IF shouldNotFallback(opts, "EmptyUrl")
         THEN Settled(contacted, "thrown", k, "EmptyUrl")
         ELSE fetchJson(urls, opts, outcomes, k + 1,
                        [from |-> k, value |-> "EmptyUrl"], contacted)
    ELSE IF outcomes[k] \notin RequestErrors
    THEN Settled(Append(contacted, k), "returned", k, outcomes[k])
    ELSE IF shouldNotFallback(opts, outcomes[k])
    THEN Settled(Append(contacted, k), "thrown", k, outcomes[k])
    ELSE fetchJson(urls, opts, outcomes, k + 1,
                   [from |-> k, value |-> outcomes[k]], Append(contacted, k))

\* jsonRpcHttpClient.ts:137-140
parseRpcResponse(res) ==
    IF res.value = "result" THEN res
    ELSE Settled(res.contacted, "thrown", res.from, "ErrorJsonRpcResponse")

\* jsonRpcHttpClient.ts:51-54
fetch(urls, opts, outcomes) ==
    LET res == fetchJson(urls, opts, outcomes, 1, NoError, <<>>)
    IN IF res.settled = "thrown" THEN res ELSE parseRpcResponse(res)

NoFetch == [outcomes |-> <<>>, json |-> Settled(<<>>, "none", 0, "none"),
            res |-> Settled(<<>>, "none", 0, "none")]

NoClient ==
    [urls |-> <<>>, opts |-> NoShouldNotFallback, constructed |-> "idle",
     fetches |-> 0, last |-> NoFetch]

----------------------------------------------------------------------------
(* JsonRpcHttpClient: fetchJson request by request, with the parent abort    *)
(* signal.  A request is waiting for the response ("headers": the promise of  *)
(* fetch is pending) or reading the body ("body": res.text() is pending).     *)

\* jsonRpcHttpClient.ts:105-120: fetchJsonOneUrl for the k-th URL, up to the
\* await of fetch.  The listener added to a signal that has already fired is
\* never called.
fetchJsonOneUrl(call, k) ==
    [call EXCEPT !.k = k, !.phase = "headers",
                 !.listening = ~call.signalAborted,
                 !.started = Append(@, [url |-> k, afterAbort |-> call.signalAborted])]

\* jsonRpcHttpClient.ts:76-91: the request to the k-th URL has thrown.
\* shouldNotFallback, if it says so, ends the call; otherwise the loop goes
\* on to the next URL, and past the last one the last error is thrown.
requestThrew(call, error) ==
    IF error \in call.stops
    THEN [call EXCEPT !.phase = "done", !.listening = FALSE, !.result = error]
    ELSE IF call.k < call.urls
    THEN fetchJsonOneUrl([call EXCEPT !.listening = FALSE], call.k + 1)
    ELSE [call EXCEPT !.phase = "done", !.listening = FALSE, !.result = error]

\* jsonRpcHttpClient.ts:110-114: the "abort" event of the parent signal.  A
\* listener still attached aborts the request's controller, and the pending
\* fetch rejects with an AbortError.
parentSignalAborts(call) ==
    IF call.listening /\ call.phase = "headers"
    THEN requestThrew([call EXCEPT !.signalAborted = TRUE], "AbortError")
    ELSE [call EXCEPT !.signalAborted = TRUE]

\* No fetchJson call.
NoRequests ==
    [urls |-> 0, stops |-> {}, signalAborted |-> FALSE, k |-> 0, phase |-> "idle",
     listening |-> FALSE, started |-> <<>>, result |-> "none"]

----------------------------------------------------------------------------
(* getLodestarApi: writeHeapdump.  A call runs to its first await in one     *)
(* piece: the test of writingHeapdump, then the two imports awaited; the      *)
(* flag is set after the imports, and cleared when the snapshot has ended.    *)

\* Where a call is: not made yet; past the test and awaiting the imports;
\* piping the snapshot into the file; settled.
CallPositions ==
    {"notCalled", "importing", "writing", "returned",
     "NodeJS only", "Already writing heapdump"}

\* lines 44-50: from the call to the first await.
writeHeapdumpEnters(nodejs, writingHeapdump) ==
    IF ~nodejs THEN "NodeJS only"
    ELSE IF writingHeapdump THEN "Already writing heapdump"
    ELSE "importing"

\* No call of writeHeapdump has been made.
NoHeapdump ==
    [nodejs |-> TRUE, writingHeapdump |-> FALSE, calls |-> <<>>]

----------------------------------------------------------------------------
(* BlockProposingService (validator/src/services/block.ts).  The work for   *)
(* one proposer is given by the requests it has made so far, in order, and   *)
(* by how it settled; failsAt names the request of it that fails, if any.    *)

\* validator/src/services/blockDuties
GENESIS_SLOT == 0

\* The four awaited requests of createAndPublishBlock, in program order.
Requests == <<"signRandao", "produceBlock", "signBlock", "publishBlock">>

\* A proposer whose work has not started.
Proposer(failsAt) ==
    [failsAt |-> failsAt, requests |-> <<>>, settled |-> "notStarted", logged |-> "none"]

\* The error that the catch block of createAndPublishBlock logs.
proposingError(request) ==
    IF request = "produceBlock" THEN "Failed to produce block"
    ELSE IF request = "publishBlock" THEN "Failed to publish block"
    ELSE request

\* createAndPublishBlock up to its first await: signRandao is requested.
createAndPublishBlock(p) ==
    [p EXCEPT !.requests = <<Requests[1]>>, !.settled = "pending"]

\* The failure of produceBlock swallowed: the work goes on without a block.
resume_SwallowsProduceBlock(p) ==
    LET n == Len(p.requests)
    IN IF p.failsAt = n /\ Requests[n] # "produceBlock"
       THEN [p EXCEPT !.settled = "caught", !.logged = proposingError(Requests[n])]
       ELSE IF n = Len(Requests)
       THEN [p EXCEPT !.settled = "published"]
       ELSE [p EXCEPT !.requests = Append(@, Requests[n + 1])]

\* block.ts:50-67: the awaited request settles.  A rejection lands in the
\* catch block, which logs it; a fulfilment leads to the next request, or
\* after publishBlock to the end of the function.
resume(p) ==
    LET n == Len(p.requests)
    IN IF p.failsAt = n
       THEN [p EXCEPT !.settled = "caught", !.logged = proposingError(Requests[n])]
       ELSE IF n = Len(Requests)
       THEN [p EXCEPT !.settled = "published"]
       ELSE [p EXCEPT !.requests = Append(@, Requests[n + 1])]

\* block.ts:29-41: nothing at or before the genesis slot; otherwise every
\* proposer's createAndPublishBlock is started, in the order of the list.
\* The function returns without waiting and throws nothing.
notifyBlockProductionFn(service) ==
    IF service.slot <= GENESIS_SLOT
    THEN [service EXCEPT !.notified = TRUE, !.debug = "Not producing block before or at genesis slot"]
    ELSE [service EXCEPT
             !.notified = TRUE,
             !.warned = Len(service.proposers) > 1,
             !.proposers = [k \in 1..Len(service.proposers) |->
                               createAndPublishBlock(service.proposers[k])]]

\* No slot has been notified.
NoProposing ==
    [slot |-> 0, proposers |-> <<>>, notified |-> FALSE, threw |-> FALSE,
     warned |-> FALSE, debug |-> "none"]

----------------------------------------------------------------------------
(* getBeaconPoolApi: submitPoolAttestations.  chain.attestationPool.add is   *)
(* synchronous and may throw (the gossip handler guards it,                   *)
(* handlers/index.ts:143-147); publishBeaconAttestation returns a promise.    *)

\* A submitted attestation, by what its processing meets: the outcome of
\* validateGossipAttestation, whether the publish rejects, whether the add
\* throws.
Attestation(validation, publishFails, addThrows) ==
    [validation |-> validation, publishFails |-> publishFails, addThrows |-> addThrows]

\* pool/index.ts:51-59, once the validation of attestation i has settled:
\* a rejection is caught; otherwise the publish is requested, then the add is
\* called, and an add that throws is caught while the publish is in flight.
afterValidation(call, i) ==
    LET att == call.attestations[i]
    IN IF att.validation # "ok"
       THEN [call EXCEPT !.validating = @ \ {i},
                         !.errors = Append(@, <<i, att.validation>>),
                         !.settled = @ \cup {i}]
       ELSE IF att.addThrows
       THEN [call EXCEPT !.validating = @ \ {i},
                         !.publishRequested = @ \cup {i},
                         !.inFlight = @ \cup {i},
                         !.addCalled = @ \cup {i},
                         !.errors = Append(@, <<i, "add">>),
                         !.settled = @ \cup {i}]
       ELSE [call EXCEPT !.validating = @ \ {i},
                         !.publishRequested = @ \cup {i},
                         !.inFlight = @ \cup {i},
                         !.addCalled = @ \cup {i},
                         !.inPool = @ \cup {i}]

\* pool/index.ts:56-67, once the publish of attestation i has settled: the
\* mapped function, if it still awaits the publish, ends or catches the
\* rejection.
afterPublish(call, i) ==
    LET att == call.attestations[i]
        awaited == i \notin call.settled
    IN [call EXCEPT
           !.inFlight = @ \ {i},
           !.published = IF att.publishFails THEN @ ELSE @ \cup {i},
           !.errors = IF awaited /\ att.publishFails THEN Append(@, <<i, "publish">>) ELSE @,
           !.settled = @ \cup {i}]

\* The mapped function without its try / catch: the first error rejects the
\* Promise.all, and the call with it.
mapSettled_FirstError(call) ==
    call.settled = 1..Len(call.attestations) \/ call.errors # <<>>

\* pool/index.ts:49-67: Promise.all settles when every mapped function has,
\* none of which rejects.
mapSettled(call) ==
    call.settled = 1..Len(call.attestations)

\* pool/index.ts:69-73: what the call throws.
submitPoolAttestationsThrows(errors) ==
    IF Len(errors) > 1 THEN [kind |-> "Multiple errors on submitPoolAttestations", of |-> errors]
    ELSE IF Len(errors) = 1 THEN [kind |-> "single", of |-> <<errors[1]>>]
    ELSE [kind |-> "none", of |-> <<>>]

\* No call of submitPoolAttestations.
NoAttestations ==
    [attestations |-> <<>>, validating |-> {}, publishRequested |-> {}, inFlight |-> {},
     published |-> {}, addCalled |-> {}, inPool |-> {}, settled |-> {},
     errors |-> <<>>, thrown |-> submitPoolAttestationsThrows(<<>>), pc |-> "idle"]

ApiIdle ==
    /\ heapdump = NoHeapdump
    /\ proposing = NoProposing
    /\ submitted = NoAttestations
    /\ requests = NoRequests

----------------------------------------------------------------------------
(* Inputs: the pre-states the transitions start from *)

Validator(eb, sl, aee, ae, ex, wd) ==
    [effectiveBalance |-> eb, slashed |-> sl, activationEligibilityEpoch |-> aee,
     activationEpoch |-> ae, exitEpoch |-> ex, withdrawableEpoch |-> wd]

FAR == FAR_FUTURE_EPOCH
ETH == EFFECTIVE_BALANCE_INCREMENT

\* A registry entry with its balance.
Entry(v, b) == [validator |-> v, balance |-> b]

\* General inputs, at epoch c.
GeneralEntries(c) == {
    \* active, balance at the effective balance
    Entry(Validator(MAX_EFFECTIVE_BALANCE, FALSE, 0, 0, FAR, FAR), 32 * ETH),
    \* active, balance drifted inside / outside the hysteresis band
    Entry(Validator(MAX_EFFECTIVE_BALANCE, FALSE, 0, 0, FAR, FAR), 32 * ETH - 5),
    Entry(Validator(MAX_EFFECTIVE_BALANCE, FALSE, 0, 0, FAR, FAR), 32 * ETH - 26),
    \* active, balance just below EJECTION_BALANCE, effective balance not yet updated
    Entry(Validator(MAX_EFFECTIVE_BALANCE, FALSE, 0, 0, FAR, FAR), EJECTION_BALANCE - 1),
    \* active, effective balance at EJECTION_BALANCE
    Entry(Validator(EJECTION_BALANCE, FALSE, 0, 0, FAR, FAR), EJECTION_BALANCE - 1),
    \* active, exit already initiated beyond computeActivationExitEpoch(c)
    Entry(Validator(MAX_EFFECTIVE_BALANCE, FALSE, 0, 0, c + MAX_SEED_LOOKAHEAD + 2,
                    c + MAX_SEED_LOOKAHEAD + 2 + MIN_VALIDATOR_WITHDRAWABILITY_DELAY),
          32 * ETH),
    \* a full deposit, not yet in the activation queue
    Entry(Validator(MAX_EFFECTIVE_BALANCE, FALSE, FAR, FAR, FAR, FAR), 32 * ETH),
    \* a partial deposit that was topped up
    Entry(Validator(31 * ETH, FALSE, FAR, FAR, FAR, FAR), 32 * ETH + 50),
    \* queued for activation
    Entry(Validator(MAX_EFFECTIVE_BALANCE, FALSE, c - 3, FAR, FAR, FAR), 32 * ETH),
    \* slashed, the proportional penalty due in this epoch
    Entry(Validator(MAX_EFFECTIVE_BALANCE, TRUE, 0, 0,
                    c + intDiv(EPOCHS_PER_SLASHINGS_VECTOR, 2) - MIN_VALIDATOR_WITHDRAWABILITY_DELAY,
                    c + intDiv(EPOCHS_PER_SLASHINGS_VECTOR, 2)), 31 * ETH),
    \* exited and withdrawn; the same with a later top-up below UPWARD_THRESHOLD
    Entry(Validator(0, FALSE, 0, 0, 10, 10 + MIN_VALIDATOR_WITHDRAWABILITY_DELAY), 0),
    Entry(Validator(0, FALSE, 0, 0, 10, 10 + MIN_VALIDATOR_WITHDRAWABILITY_DELAY), ETH + 10)
    }

\* Activation-queue inputs, at epoch c with finalized epoch c - 3: eligibility
\* finalized, finalized only if this transition moves finality on, not finalized.
QueuedEntries(c) == {
    Entry(Validator(MAX_EFFECTIVE_BALANCE, FALSE, aee, FAR, FAR, FAR), 32 * ETH) :
        aee \in {c - 4, c - 2, c} }

\* All sequences of length n over the set S.
SeqsOfLen(S, n) == [1..n -> S]

GeneralRegistries(c) == UNION {SeqsOfLen(GeneralEntries(c), n) : n \in 0..NumValidators}

QueuedRegistries(c) == SeqsOfLen(QueuedEntries(c), NumQueued)

\* One validator slashed, n validators active.
StakeRegistries(c) ==
    { [i \in 1..(n + 1) |->
          IF i = (IF last THEN n + 1 ELSE 1)
          THEN Entry(Validator(MAX_EFFECTIVE_BALANCE, TRUE, 0, 0,
                    c + intDiv(EPOCHS_PER_SLASHINGS_VECTOR, 2) - MIN_VALIDATOR_WITHDRAWABILITY_DELAY,
                    c + intDiv(EPOCHS_PER_SLASHINGS_VECTOR, 2)), b)
          ELSE Entry(Validator(MAX_EFFECTIVE_BALANCE, FALSE, 0, 0, FAR, FAR), 32 * ETH)] :
      n \in {FewStakers, NumStakers}, last \in BOOLEAN, b \in {32 * ETH, 31 * ETH, 0} }

\* A new deposit, two queued validators, one at the ejection balance and one
\* slashed, in the two orders of the deposit and the ejection.
MixedRegistries(c) ==
    { LET deposit == Entry(Validator(MAX_EFFECTIVE_BALANCE, FALSE, FAR, FAR, FAR, FAR), 32 * ETH)
          low == Entry(Validator(EJECTION_BALANCE, FALSE, 0, 0, FAR, FAR), EJECTION_BALANCE - 1)
      IN << (IF first THEN deposit ELSE low),
            Entry(Validator(MAX_EFFECTIVE_BALANCE, FALSE, aee, FAR, FAR, FAR), 32 * ETH),
            Entry(Validator(MAX_EFFECTIVE_BALANCE, FALSE, c - 4, FAR, FAR, FAR), 32 * ETH),
            (IF first THEN low ELSE deposit),
            Entry(Validator(MAX_EFFECTIVE_BALANCE, TRUE, 0, 0,
                    c + intDiv(EPOCHS_PER_SLASHINGS_VECTOR, 2) - MIN_VALIDATOR_WITHDRAWABILITY_DELAY,
                    c + intDiv(EPOCHS_PER_SLASHINGS_VECTOR, 2)), 31 * ETH) >> :
      first \in BOOLEAN, aee \in {c - 4, c - 2} }

\* state.slashings: the effective balance of the slashed validators, recorded
\* in the slot of one epoch of the vector; all other slots are 0.
InitSlashings(registry, c) ==
    [k \in 1..EPOCHS_PER_SLASHINGS_VECTOR |->
        IF k = 1 + ((c - 1) % EPOCHS_PER_SLASHINGS_VECTOR)
        THEN SumSeq([i \in 1..Len(registry) |->
                 IF registry[i].validator.slashed THEN MAX_EFFECTIVE_BALANCE ELSE 0])
        ELSE 0]

----------------------------------------------------------------------------
(* The state machine: one action per sub-phase of the epoch transition *)

\* Rewards and penalties: the balance delta of an eligible attester.
RewardDeltas == {-1, 0}

\* The other components at rest.
OthersIdle ==
    /\ jf = GenesisCheckpoints
    /\ slots = NoProcessSlots
    /\ gossip = <<>>
    /\ pool = NoSubmit
    /\ rpc = NoClient
    /\ ApiIdle

\* Nobody has attested: the participation lists are all zero and there are
\* no pending attestations.
NoneAttested(n) ==
    [previousEpochParticipation |-> [i \in 1..n |-> {}],
     currentEpochParticipation |-> [i \in 1..n |-> {}],
     previousEpochAttestations |-> <<>>,
     currentEpochAttestations |-> <<>>]

\* A pre-state with the validators of the registry, the balances bals and
\* the participation part.
InitAttesting(registry, bals, forkName, part) ==
    /\ fork = forkName
    /\ participation = part
    /\ currentEpoch = InitEpoch
    /\ validators = [i \in 1..Len(registry) |-> registry[i].validator]
    /\ balances = bals
    /\ slashings = InitSlashings(registry, InitEpoch)
    /\ finalizedEpoch = InitEpoch - 3
    /\ effectiveBalances =
           [i \in 1..Len(registry) |-> registry[i].validator.effectiveBalance]
    /\ churnLimit =
           getChurnLimit([i \in 1..Len(registry) |-> registry[i].validator], InitEpoch)
    /\ epochProcess = NoEpochProcess
    /\ pc = "beforeProcessEpoch"
    /\ transitions = 0
    /\ OthersIdle

InitState(registry, bals, forkName) ==
    InitAttesting(registry, bals, forkName, NoneAttested(Len(registry)))

InitWith(registry, forkName) ==
    InitState(registry, [i \in 1..Len(registry) |-> registry[i].balance], forkName)

Init ==
    \/ \E registry \in GeneralRegistries(InitEpoch), forkName \in {"phase0", "altair"} :
           InitWith(registry, forkName)
    \/ \E registry \in QueuedRegistries(InitEpoch) : InitWith(registry, "phase0")
    \/ \E registry \in StakeRegistries(InitEpoch), forkName \in {"phase0", "altair"} :
           InitWith(registry, forkName)
    \/ \E registry \in MixedRegistries(InitEpoch), forkName \in {"phase0", "altair"} :
           InitWith(registry, forkName)

BeforeProcessEpoch ==
    /\ UNCHANGED otherVars
    /\ pc = "beforeProcessEpoch"
    /\ epochProcess' = beforeProcessEpoch(fork, validators, balances, currentEpoch,
                                          effectiveBalances, participation)
    /\ pc' = "justification"
    /\ UNCHANGED <<fork, participation, currentEpoch, validators, balances, slashings, finalizedEpoch,
                   effectiveBalances, churnLimit, transitions>>

\* processJustificationAndFinalization: a no-op up to GENESIS_EPOCH + 1;
\* afterwards the finalized checkpoint stays or moves on, to the previous
\* epoch at most.
ProcessJustificationAndFinalization ==
    /\ UNCHANGED otherVars
    /\ pc = "justification"
    /\ IF currentEpoch <= 1
       THEN finalizedEpoch' = finalizedEpoch
       ELSE finalizedEpoch' \in {finalizedEpoch, Max(finalizedEpoch, currentEpoch - 1)}
    /\ pc' = "rewards"
    /\ UNCHANGED <<fork, participation, currentEpoch, validators, balances, slashings,
                   effectiveBalances, churnLimit, epochProcess, transitions>>

\* processRewardsAndPenalties: skipped at GENESIS_EPOCH; the deltas are applied
\* to the flat balances, saturating at 0, and the tree is rebuilt from them.
ApplyDelta(bals, statuses, delta) ==
    [i \in 1..Len(bals) |->
        IF "ELIGIBLE_ATTESTER" \in statuses[i].flags
        THEN (IF bals[i] + delta < 0 THEN 0 ELSE bals[i] + delta)
        ELSE bals[i]]

ProcessRewardsAndPenalties ==
    /\ UNCHANGED otherVars
    /\ pc = "rewards"
    /\ \E delta \in RewardDeltas :
         LET newBalances ==
                 IF epochProcess.currentEpoch = 0 THEN epochProcess.balancesFlat
                 ELSE ApplyDelta(epochProcess.balancesFlat, epochProcess.statusesFlat, delta)
         IN /\ epochProcess' = [epochProcess EXCEPT !.balancesFlat = newBalances]
            /\ balances' = newBalances
    /\ pc' = "registry"
    /\ UNCHANGED <<fork, participation, currentEpoch, validators, slashings, finalizedEpoch,
                   effectiveBalances, churnLimit, transitions>>

ProcessRegistryUpdates ==
    /\ UNCHANGED otherVars
    /\ pc = "registry"
    /\ validators' = processRegistryUpdates(validators, epochProcess, currentEpoch,
                                            churnLimit, finalizedEpoch)
    /\ pc' = "slashings"
    /\ UNCHANGED <<fork, participation, currentEpoch, balances, slashings, finalizedEpoch,
                   effectiveBalances, churnLimit, epochProcess, transitions>>

ProcessSlashings ==
    /\ UNCHANGED otherVars
    /\ pc = "slashings"
    /\ balances' = processSlashingsAllForks(fork, balances, slashings,
                                            effectiveBalances, epochProcess)
    /\ pc' = "effectiveBalance"
    /\ UNCHANGED <<fork, participation, currentEpoch, validators, slashings, finalizedEpoch,
                   effectiveBalances, churnLimit, epochProcess, transitions>>

ProcessEffectiveBalanceUpdates ==
    /\ UNCHANGED otherVars
    /\ pc = "effectiveBalance"
    /\ validators' = processEffectiveBalanceUpdates(validators, balances, epochProcess)
    /\ pc' = "afterProcessEpoch"
    /\ UNCHANGED <<fork, participation, currentEpoch, balances, slashings, finalizedEpoch,
                   effectiveBalances, churnLimit, epochProcess, transitions>>

\* processParticipationRecordUpdates: the current epoch's record becomes the
\* previous epoch's, the current one is emptied.
processParticipationRecordUpdates(forkName, part) ==
    IF forkName = "phase0"
    THEN [part EXCEPT !.previousEpochAttestations = part.currentEpochAttestations,
                      !.currentEpochAttestations = <<>>]
    ELSE [part EXCEPT !.previousEpochParticipation = part.currentEpochParticipation,
                      !.currentEpochParticipation =
                          [i \in 1..Len(part.currentEpochParticipation) |-> {}]]

\* The resets that follow, and the rotation of the epoch cache: the slashings
\* slot of the next epoch is cleared, the summary is dropped, the cache is
\* rebuilt for the next epoch.
AfterProcessEpoch ==
    /\ UNCHANGED otherVars
    /\ pc = "afterProcessEpoch"
    /\ slashings' = [slashings EXCEPT
                        ![1 + ((currentEpoch + 1) % EPOCHS_PER_SLASHINGS_VECTOR)] = 0]
    /\ currentEpoch' = currentEpoch + 1
    /\ effectiveBalances' = [i \in 1..Len(validators) |-> validators[i].effectiveBalance]
    /\ churnLimit' = getChurnLimit(validators, currentEpoch + 1)
    /\ epochProcess' = NoEpochProcess
    /\ participation' = processParticipationRecordUpdates(fork, participation)
    /\ transitions' = transitions + 1
    /\ pc' = IF transitions + 1 < MaxTransitions THEN "beforeProcessEpoch" ELSE "done"
    /\ UNCHANGED <<fork, validators, balances, finalizedEpoch>>

Next ==
    \/ BeforeProcessEpoch
    \/ ProcessJustificationAndFinalization
    \/ ProcessRewardsAndPenalties
    \/ ProcessRegistryUpdates
    \/ ProcessSlashings
    \/ ProcessEffectiveBalanceUpdates
    \/ AfterProcessEpoch

Spec == Init /\ [][Next]_vars

----------------------------------------------------------------------------
(* The epoch transition on a pre-state with one balance missing or one      *)
(* balance too many                                                         *)

InitCorrupt ==
    \E registry \in GeneralRegistries(InitEpoch) \ {<<>>},
       forkName \in {"phase0", "altair"}, missing \in BOOLEAN :
        LET bals == [i \in 1..Len(registry) |-> registry[i].balance]
        IN InitState(registry,
                     IF missing THEN SubSeq(bals, 1, Len(bals) - 1)
                     ELSE Append(bals, 32 * ETH),
                     forkName)

NextCorrupt == BeforeProcessEpoch

SpecCorrupt == InitCorrupt /\ [][NextCorrupt]_vars

\* C15 as stated: on a pre-state whose number of validators differs from its
\* number of balances the transition aborts: no summary is built and no
\* sub-phase follows.
C15_AsStated ==
    Len(validators) # Len(balances) =>
        /\ pc = "beforeProcessEpoch"
        /\ epochProcess = NoEpochProcess

----------------------------------------------------------------------------
(* The summary of pre-states with participation: the participation lists    *)
(* and the pending attestations are both given, whatever the fork            *)

\* Validators at epoch c: active with 32 ETH; active at the previous epoch
\* only, with 31 ETH; active from the current epoch on; slashed and not
\* active, withdrawable at c and at c + 1; exited long ago.
AttesterEntries(c) == {
    Entry(Validator(MAX_EFFECTIVE_BALANCE, FALSE, 0, 0, FAR, FAR), 32 * ETH),
    Entry(Validator(31 * ETH, FALSE, 0, 0, c, c + MIN_VALIDATOR_WITHDRAWABILITY_DELAY),
          31 * ETH),
    Entry(Validator(MAX_EFFECTIVE_BALANCE, FALSE, c - 6, c, FAR, FAR), 32 * ETH),
    Entry(Validator(MAX_EFFECTIVE_BALANCE, TRUE, 0, 0,
                    c - MIN_VALIDATOR_WITHDRAWABILITY_DELAY, c), 31 * ETH),
    Entry(Validator(MAX_EFFECTIVE_BALANCE, TRUE, 0, 0,
                    c + 1 - MIN_VALIDATOR_WITHDRAWABILITY_DELAY, c + 1), 31 * ETH),
    Entry(Validator(30 * ETH, FALSE, 0, 0, 10, 10 + MIN_VALIDATOR_WITHDRAWABILITY_DELAY),
          30 * ETH)
    }

\* The participation of a validator in the previous and in the current epoch.
ParticipationPairs == {
    <<{}, {}>>,
    <<{"timelySource"}, {"timelyTarget", "timelyHead"}>>,
    <<{"timelyTarget"}, {"timelySource"}>>,
    <<{"timelySource", "timelyHead"}, {"timelySource", "timelyTarget"}>>
    }

\* The pending attestations of the previous and the current epoch, for n
\* validators: none; one of all validators with matching target and head,
\* and one of the first validator matching nothing; a mix.
AttestationPatterns(n) == {
    [previous |-> <<>>, current |-> <<>>],
    [previous |-> <<PendingAttestation(1..n, TRUE, TRUE)>>,
     current |-> <<PendingAttestation({1}, FALSE, FALSE)>>],
    [previous |-> <<PendingAttestation({1}, FALSE, TRUE), PendingAttestation({n}, TRUE, FALSE)>>,
     current |-> <<PendingAttestation(1..n, TRUE, TRUE)>>]
    }

InitSummary ==
    \E n \in 0..NumAttesters :
      \E registry \in SeqsOfLen(AttesterEntries(InitEpoch), n),
         pairs \in SeqsOfLen(ParticipationPairs, n),
         pending \in AttestationPatterns(n),
         forkName \in {"phase0", "altair"} :
          InitAttesting(registry, [i \in 1..n |-> registry[i].balance], forkName,
              [previousEpochParticipation |-> [i \in 1..n |-> pairs[i][1]],
               currentEpochParticipation |-> [i \in 1..n |-> pairs[i][2]],
               previousEpochAttestations |-> pending.previous,
               currentEpochAttestations |-> pending.current])

NextSummary == BeforeProcessEpoch

SpecSummary == InitSummary /\ [][NextSummary]_vars

\* No epoch transition of the state machine above is running.
EpochIdle ==
    /\ fork = "phase0"
    /\ currentEpoch = GENESIS_EPOCH
    /\ validators = <<>>
    /\ balances = <<>>
    /\ slashings = <<>>
    /\ finalizedEpoch = GENESIS_EPOCH
    /\ effectiveBalances = <<>>
    /\ churnLimit = MIN_PER_EPOCH_CHURN_LIMIT
    /\ epochProcess = NoEpochProcess
    /\ pc = "done"
    /\ transitions = 0
    /\ participation = NoParticipation

----------------------------------------------------------------------------
(* A call of processSlots and what its caller does with the result *)

InitSlots ==
    /\ EpochIdle
    /\ jf = GenesisCheckpoints
    /\ gossip = <<>>
    /\ pool = NoSubmit
    /\ rpc = NoClient
    /\ ApiIdle
    /\ \E slot \in 0..MaxStartSlot, target \in 0..(MaxStartSlot + MaxAdvance) :
          /\ target <= slot + MaxAdvance
          /\ LET state == SlotState(slot,
                              <<Validator(MAX_EFFECTIVE_BALANCE, FALSE, 0, 0, FAR, FAR)>>,
                              <<32 * ETH - 25>>)
             IN slots = [NoProcessSlots EXCEPT !.heap = <<state>>, !.input = 1,
                                               !.target = target, !.given = state,
                                               !.pc = "call"]

\* The entry of processSlots: the test of the target slot, then the clone.
ProcessSlotsEnter ==
    /\ slots.pc = "call"
    /\ IF slotBehind(slots.heap[slots.input].slot, slots.target)
       THEN slots' = [slots EXCEPT !.error = "SlotBehind", !.pc = "failed"]
       ELSE LET c == clone(slots.heap, slots.input)
            IN slots' = [slots EXCEPT !.heap = c.heap, !.post = c.ref, !.pc = "loop"]
    /\ UNCHANGED <<epochVars, apiVars, jf, gossip, pool, rpc>>

\* One round of the loop of processSlots.
ProcessSlotsRound ==
    /\ slots.pc = "loop"
    /\ slots.heap[slots.post].slot < slots.target
    /\ LET before == slots.heap[slots.post]
           after == processSlot(before)
       IN slots' = [slots EXCEPT
                      !["heap"][slots.post] = after,
                      !.epochsRun = IF epochDue(before.slot)
                                    THEN Append(@, before.slot) ELSE @]
    /\ UNCHANGED <<epochVars, apiVars, jf, gossip, pool, rpc>>

ProcessSlotsReturn ==
    /\ slots.pc = "loop"
    /\ slots.heap[slots.post].slot >= slots.target
    /\ slots' = [slots EXCEPT !.pc = "returned"]
    /\ UNCHANGED <<epochVars, apiVars, jf, gossip, pool, rpc>>

\* The caller moves the slot of the state it got back (part_002:107).
CallerMutatesPost ==
    /\ slots.pc = "returned"
    /\ slots' = [slots EXCEPT !["heap"][slots.post].slot = @ + 1, !.pc = "mutated"]
    /\ UNCHANGED <<epochVars, apiVars, jf, gossip, pool, rpc>>

NextSlots ==
    \/ ProcessSlotsEnter
    \/ ProcessSlotsRound
    \/ ProcessSlotsReturn
    \/ CallerMutatesPost

SpecSlots == InitSlots /\ [][NextSlots]_vars

----------------------------------------------------------------------------
(* The checkpoints over consecutive epoch transitions *)

InitCheckpoints ==
    /\ EpochIdle
    /\ jf = GenesisCheckpoints
    /\ slots = NoProcessSlots
    /\ gossip = <<>>
    /\ pool = NoSubmit
    /\ rpc = NoClient
    /\ ApiIdle

\* One epoch transition: the supermajority tests on the previous and current
\* epoch's target stake come out either way; the epoch then moves on.
EpochTransitionCheckpoints ==
    /\ jf.epoch < MaxEpochs
    /\ \E prevSupermajority, currSupermajority \in BOOLEAN :
          jf' = [processJustificationAndFinalization(jf, prevSupermajority,
                                                     currSupermajority)
                    EXCEPT !.epoch = jf.epoch + 1]
    /\ UNCHANGED <<epochVars, apiVars, slots, gossip, pool, rpc>>

NextCheckpoints == EpochTransitionCheckpoints

SpecCheckpoints == InitCheckpoints /\ [][NextCheckpoints]_vars

\* C14 (as amended): after every epoch transition, finalized_checkpoint.epoch <=
\* previous_justified_checkpoint.epoch <= current_justified_checkpoint.epoch,
\* and the current justified epoch is before the epoch the post-state is in.
C14_CheckpointsOrdered ==
    /\ jf.finalized <= jf.previousJustified
    /\ jf.previousJustified <= jf.currentJustified
    /\ jf.epoch > GENESIS_EPOCH => jf.currentJustified < jf.epoch

\* A transition has finalized an epoch, and another has justified an epoch
\* after more than one epoch without justification.
C14_Witness ==
    /\ jf.finalized > GENESIS_EPOCH
    /\ jf.currentJustified > jf.previousJustified + 1

\* C14 as stated: finalized_checkpoint.epoch <= current_justified_checkpoint.epoch
\* <= previous_justified_checkpoint.epoch + 1.
C14_AsStated ==
    /\ jf.finalized <= jf.currentJustified
    /\ jf.currentJustified <= jf.previousJustified + 1

----------------------------------------------------------------------------
(* Properties of processRegistryUpdates *)

\* The validators of the summary's snapshot that are queued for activation.
ActivationList == SeqToSet(epochProcess.indicesEligibleForActivation)

\* How many queued validators precede i in (activationEligibilityEpoch, index) order.
QueueRank(i) ==
    LET pre == epochProcess.validators
    IN Cardinality({j \in ActivationList :
          \/ pre[j].activationEligibilityEpoch < pre[i].activationEligibilityEpoch
          \/ /\ pre[j].activationEligibilityEpoch = pre[i].activationEligibilityEpoch
             /\ j < i})

AllQueuedFinalized ==
    \A i \in ActivationList :
        epochProcess.validators[i].activationEligibilityEpoch <= finalizedEpoch

Activated(i) ==
    /\ epochProcess.validators[i].activationEpoch = FAR_FUTURE_EPOCH
    /\ validators[i].activationEpoch # FAR_FUTURE_EPOCH

\* C1: after processRegistryUpdates, when all K validators of
\* indicesEligibleForActivation have activationEligibilityEpoch <= the finalized
\* epoch, exactly min(churnLimit, K) of them have activationEpoch =
\* computeActivationExitEpoch(currentEpoch), namely those that fewer than
\* churnLimit others precede in (activationEligibilityEpoch, index) order; the
\* rest keep FAR_FUTURE_EPOCH.
C1_ActivationUpToChurn ==
    (pc = "slashings" /\ AllQueuedFinalized) =>
        /\ \A i \in ActivationList :
              validators[i].activationEpoch =
                  IF QueueRank(i) < churnLimit
                  THEN computeActivationExitEpoch(epochProcess.currentEpoch)
                  ELSE FAR_FUTURE_EPOCH
        /\ Cardinality({i \in ActivationList : Activated(i)})
               = Min(churnLimit, Cardinality(ActivationList))

C1_Witness ==
    /\ pc = "slashings"
    /\ AllQueuedFinalized
    /\ Cardinality(ActivationList) > churnLimit
    /\ \E i, j \in ActivationList :
          /\ i < j
          /\ Activated(j) /\ ~Activated(i)

\* C2: after processRegistryUpdates no validator whose
\* activationEligibilityEpoch is past the finalized epoch has received an
\* activationEpoch, and each of the first churnLimit validators of the queue,
\* in (activationEligibilityEpoch, index) order, is activated exactly when
\* its activationEligibilityEpoch <= the finalized epoch.
C2_ActivationNeedsFinality ==
    pc = "slashings" =>
        /\ \A i \in Indices(validators) :
              Activated(i) =>
                  /\ epochProcess.validators[i].activationEligibilityEpoch <= finalizedEpoch
                  /\ validators[i].activationEligibilityEpoch <= finalizedEpoch
        /\ \A i \in ActivationList :
              QueueRank(i) < churnLimit =>
                  (Activated(i) <=>
                     epochProcess.validators[i].activationEligibilityEpoch <= finalizedEpoch)

C2_Witness ==
    /\ pc = "slashings"
    /\ \E i, j \in ActivationList :
          /\ QueueRank(i) < churnLimit /\ QueueRank(j) < churnLimit
          /\ i < j
          /\ Activated(j) /\ ~Activated(i)

\* The validators whose effective balance calls for ejection in the running
\* transition: active, not exiting, effective balance <= EJECTION_BALANCE.
DueForEjection ==
    LET pre == epochProcess.validators
    IN {i \in Indices(pre) :
          /\ isActiveValidator(pre[i], epochProcess.currentEpoch)
          /\ pre[i].exitEpoch = FAR_FUTURE_EPOCH
          /\ pre[i].effectiveBalance <= EJECTION_BALANCE}

\* No validator is queued to exit later than computeActivationExitEpoch(currentEpoch),
\* and the churn of that epoch is not used up.
ExitQueueFree ==
    LET pre == epochProcess.validators
        base == computeActivationExitEpoch(epochProcess.currentEpoch)
    IN /\ \A j \in Indices(pre) :
            pre[j].exitEpoch # FAR_FUTURE_EPOCH => pre[j].exitEpoch <= base
       /\ Cardinality({j \in Indices(pre) : pre[j].exitEpoch = base}) < churnLimit

InActivationLists(j) ==
    \/ j \in SeqToSet(epochProcess.indicesEligibleForActivationQueue)
    \/ j \in ActivationList

----------------------------------------------------------------------------
(* Properties of processSlashings *)

SlashList == SeqToSet(epochProcess.indicesToSlash)

\* The penalty of the claim, from the state: the effective balance is the one
\* the validator record holds when processSlashings runs.
ClaimedPenalty(i) ==
    LET multiplier == IF fork = "phase0" THEN PROPORTIONAL_SLASHING_MULTIPLIER
                      ELSE PROPORTIONAL_SLASHING_MULTIPLIER_ALTAIR
        total == epochProcess.totalActiveStake
        adjusted == Min(SumSeq(slashings) * multiplier, total)
    IN (((validators[i].effectiveBalance \div EFFECTIVE_BALANCE_INCREMENT) * adjusted)
            \div total) * EFFECTIVE_BALANCE_INCREMENT

\* C4: processSlashings decreases state.balances of each index in indicesToSlash
\* by penalty = floor(floor(effective_balance / increment) * adjusted /
\* total_active_stake) * increment, adjusted = min(sum(state.slashings) *
\* multiplier, total_active_stake), multiplier by fork, the effective balance
\* being the one held before this epoch's effective-balance update; the
\* decrease saturates at 0.
C4_SlashingPenalty ==
    [][pc = "slashings" =>
         \A i \in SlashList :
             balances'[i] = IF ClaimedPenalty(i) > balances[i] THEN 0
                            ELSE balances[i] - ClaimedPenalty(i)]_vars

\* processSlashings has run with a penalty that is neither 0 nor the whole
\* effective balance, in Altair.
C4_Witness ==
    /\ pc = "effectiveBalance"
    /\ fork = "altair"
    /\ \E i \in SlashList :
          /\ ClaimedPenalty(i) > 0
          /\ ClaimedPenalty(i) < validators[i].effectiveBalance
          /\ balances[i] = epochProcess.balancesFlat[i] - ClaimedPenalty(i)

\* The scenario of C5: phase 0, one validator to slash, effective balance
\* 32 ETH, total slashings 32 ETH, total active stake 3200 ETH.
SlashingScenario(i) ==
    /\ fork = "phase0"
    /\ epochProcess.indicesToSlash = <<i>>
    /\ validators[i].effectiveBalance = 32 * ETH
    /\ SumSeq(slashings) = 32 * ETH
    /\ epochProcess.totalActiveStake = 3200 * ETH

\* C5 (as amended): in the scenario the penalty that processSlashings subtracts
\* is 0: 32 * min(96, 3200) / 3200 = 0.96 increments, floored to 0 increments.
C5_ScenarioPenaltyIsZero ==
    [][pc = "slashings" =>
         \A i \in Indices(balances) :
             SlashingScenario(i) => balances'[i] = balances[i]]_vars

C5_Witness ==
    /\ pc = "effectiveBalance"
    /\ \E i \in Indices(balances) :
          /\ SlashingScenario(i)
          /\ balances[i] = epochProcess.balancesFlat[i]
          /\ balances[i] >= ETH

\* C5 as stated: in the scenario processSlashings subtracts 0.96 ETH.
C5_AsStated ==
    [][pc = "slashings" =>
         \A i \in Indices(balances) :
             SlashingScenario(i) => balances'[i] = balances[i] - 96]_vars

\* C6 as stated: after processSlashings the tree state.balances and the flat
\* balances of the summary agree on every index in indicesToSlash.
C6_AsStated ==
    pc = "effectiveBalance" =>
        \A i \in SlashList : balances[i] = epochProcess.balancesFlat[i]

\* C10: the summary's totalActiveStake is max(EFFECTIVE_BALANCE_INCREMENT, sum of
\* the effective balances of the validators active at currentEpoch), for every
\* registry, so it is positive whenever processSlashings divides by it.
C10_TotalActiveStakeFloored ==
    pc \notin {"beforeProcessEpoch", "done"} =>
        LET pre == epochProcess.validators
            active == {i \in Indices(pre) :
                          /\ pre[i].activationEpoch <= epochProcess.currentEpoch
                          /\ epochProcess.currentEpoch < pre[i].exitEpoch}
            sum == SumSeq([i \in 1..Len(pre) |->
                       IF i \in active THEN pre[i].effectiveBalance ELSE 0])
        IN /\ epochProcess.totalActiveStake = Max(EFFECTIVE_BALANCE_INCREMENT, sum)
           /\ epochProcess.totalActiveStake > 0

\* processSlashings has divided by the total of a registry with no active
\* validator.
C10_Witness ==
    /\ pc = "effectiveBalance"
    /\ SlashList # {}
    /\ \A i \in Indices(validators) :
          ~isActiveValidator(epochProcess.validators[i], epochProcess.currentEpoch)
    /\ epochProcess.totalActiveStake = EFFECTIVE_BALANCE_INCREMENT

----------------------------------------------------------------------------
(* Properties of processEffectiveBalanceUpdates *)

\* The effective balance and the balance that processEffectiveBalanceUpdates
\* read for validator i.
ReadEffective(i) == epochProcess.validators[i].effectiveBalance
ReadBalance(i) == epochProcess.balancesFlat[i]

C8_EffectiveBalanceAligned ==
    \A i \in Indices(validators) :
        /\ validators[i].effectiveBalance % EFFECTIVE_BALANCE_INCREMENT = 0
        /\ 0 <= validators[i].effectiveBalance
        /\ validators[i].effectiveBalance <= MAX_EFFECTIVE_BALANCE

\* A second transition has updated an effective balance, from a balance that
\* is no multiple of the increment.
C8_Witness ==
    /\ pc = "afterProcessEpoch"
    /\ transitions = 1
    /\ \E i \in Indices(validators) :
          /\ validators[i].effectiveBalance # ReadEffective(i)
          /\ ReadBalance(i) % EFFECTIVE_BALANCE_INCREMENT # 0

\* C9: processEffectiveBalanceUpdates leaves a validator with balance 0 and
\* effective balance 0 at 0 and 0, and for no balance below UPWARD_THRESHOLD
\* does it raise the effective balance.
C9_NoUpdateBelowUpwardThreshold ==
    pc = "afterProcessEpoch" =>
        \A i \in Indices(validators) :
            /\ (ReadEffective(i) = 0 /\ ReadBalance(i) = 0) =>
                   (validators[i].effectiveBalance = 0 /\ balances[i] = 0)
            /\ ReadBalance(i) < UPWARD_THRESHOLD =>
                   validators[i].effectiveBalance <= ReadEffective(i)

C9_Witness ==
    /\ pc = "afterProcessEpoch"
    /\ \E i, j \in Indices(validators) :
          /\ ReadEffective(i) = 0 /\ ReadBalance(i) = 0
          /\ validators[i].effectiveBalance = 0
          /\ ReadEffective(j) = 0
          /\ ReadBalance(j) >= EFFECTIVE_BALANCE_INCREMENT
          /\ ReadBalance(j) < UPWARD_THRESHOLD
          /\ validators[j].effectiveBalance = 0

----------------------------------------------------------------------------
(* Properties of the summary built by beforeProcessEpoch *)

\* A summary is held from beforeProcessEpoch to the end of the transition.
SummaryBuilt == pc \notin {"beforeProcessEpoch", "done"}

\* C11 (as amended): in the summary, a validator's index is in indicesToSlash
\* exactly when the validator is slashed and its withdrawableEpoch is
\* currentEpoch + EPOCHS_PER_SLASHINGS_VECTOR / 2, and a validator's status has
\* the UNSLASHED flag exactly when the validator is not slashed.
C11_SlashListAndUnslashedFlag ==
    SummaryBuilt =>
        \A i \in Indices(epochProcess.validators) :
            LET v == epochProcess.validators[i]
            IN /\ i \in SlashList <=>
                      (/\ v.slashed
                       /\ v.withdrawableEpoch =
                              epochProcess.currentEpoch + (EPOCHS_PER_SLASHINGS_VECTOR \div 2))
               /\ "UNSLASHED" \in epochProcess.statusesFlat[i].flags <=> ~v.slashed

\* A summary with a slashed validator in indicesToSlash beside one that is not
\* slashed.
C11_Witness ==
    /\ pc = "justification"
    /\ \E i, j \in Indices(epochProcess.validators) :
          /\ i \in SlashList
          /\ "UNSLASHED" \notin epochProcess.statusesFlat[i].flags
          /\ ~epochProcess.validators[j].slashed
          /\ "UNSLASHED" \in epochProcess.statusesFlat[j].flags

\* C11 as stated: every validator that is not in indicesToSlash has the
\* UNSLASHED flag.
C11_AsStated ==
    SummaryBuilt =>
        \A i \in Indices(epochProcess.validators) :
            i \notin SlashList => "UNSLASHED" \in epochProcess.statusesFlat[i].flags

\* Whether no element occurs twice in the list.
NoRepeats(list) == \A k, l \in 1..Len(list) : list[k] = list[l] => k = l

\* C12: in the summary, indicesEligibleForActivationQueue,
\* indicesEligibleForActivation and indicesToEject are pairwise disjoint and
\* none of them holds an index twice.
C12_BucketsExclusive ==
    SummaryBuilt =>
        LET queue == epochProcess.indicesEligibleForActivationQueue
            activation == epochProcess.indicesEligibleForActivation
            eject == epochProcess.indicesToEject
        IN /\ SeqToSet(queue) \cap SeqToSet(activation) = {}
           /\ SeqToSet(queue) \cap SeqToSet(eject) = {}
           /\ SeqToSet(activation) \cap SeqToSet(eject) = {}
           /\ NoRepeats(queue) /\ NoRepeats(activation) /\ NoRepeats(eject)

\* A summary in which the three lists are all in use, one with two entries.
C12_Witness ==
    /\ pc = "justification"
    /\ epochProcess.indicesEligibleForActivationQueue # <<>>
    /\ Len(epochProcess.indicesEligibleForActivation) >= 2
    /\ epochProcess.indicesToEject # <<>>

\* activation_eligibility_epoch <= activation_epoch <= exit_epoch <=
\* withdrawable_epoch; FAR_FUTURE_EPOCH is the largest epoch.
EpochsOrdered(v) ==
    /\ v.activationEligibilityEpoch <= v.activationEpoch
    /\ v.activationEpoch <= v.exitEpoch
    /\ v.exitEpoch <= v.withdrawableEpoch

\* C13: every validator satisfies activationEligibilityEpoch <= activationEpoch
\* <= exitEpoch <= withdrawableEpoch in every state of every sequence of epoch
\* transitions started from a state in which every validator satisfies it.
C13_EpochsOrdered ==
    \A i \in Indices(validators) : EpochsOrdered(validators[i])

\* processRegistryUpdates has queued one validator, activated another and
\* ejected a third.
C13_Witness ==
    /\ pc = "slashings"
    /\ \E i, j, k \in Indices(validators) :
          /\ epochProcess.validators[i].activationEligibilityEpoch = FAR_FUTURE_EPOCH
          /\ validators[i].activationEligibilityEpoch # FAR_FUTURE_EPOCH
          /\ Activated(j)
          /\ epochProcess.validators[k].exitEpoch = FAR_FUTURE_EPOCH
          /\ validators[k].exitEpoch # FAR_FUTURE_EPOCH

----------------------------------------------------------------------------
(* Balances never go below zero *)

\* C19: a slashing penalty of processSlashings that exceeds the validator's
\* balance leaves the balance at 0, and no step of the epoch transition (the
\* penalties of rewards-and-penalties included) leaves a balance of the state
\* or of the summary's flat array below 0.
C19_DecreaseSaturates ==
    [][/\ pc = "slashings" =>
            \A i \in SlashList : ClaimedPenalty(i) > balances[i] => balances'[i] = 0
       /\ \A i \in 1..Len(balances') : balances'[i] >= 0
       /\ \A i \in 1..Len(epochProcess'.balancesFlat) :
             epochProcess'.balancesFlat[i] >= 0]_vars

\* processSlashings has met a penalty larger than a balance that was not 0.
C19_Witness ==
    /\ pc = "effectiveBalance"
    /\ \E i \in SlashList :
          /\ epochProcess.balancesFlat[i] > 0
          /\ ClaimedPenalty(i) > epochProcess.balancesFlat[i]
          /\ balances[i] = 0

\* The finalized epoch of the pre-state of the first transition.
FinalizedBefore == InitEpoch - 3

\* C24: in the first transition, whose pre-state has finalized epoch
\* FinalizedBefore, processRegistryUpdates activates each of the first
\* churnLimit queued validators exactly when its activationEligibilityEpoch
\* <= the finalized epoch that processJustificationAndFinalization of this
\* transition has left; one whose eligibility epoch is past FinalizedBefore
\* and not past the new finalized epoch gets
\* activationEpoch = computeActivationExitEpoch(currentEpoch).
C24_FinalityOfSameTransition ==
    (pc = "slashings" /\ transitions = 0) =>
        \A i \in ActivationList :
            QueueRank(i) < churnLimit =>
                LET aee == epochProcess.validators[i].activationEligibilityEpoch
                IN /\ Activated(i) <=> aee <= finalizedEpoch
                   /\ (FinalizedBefore < aee /\ aee <= finalizedEpoch) =>
                          validators[i].activationEpoch =
                              currentEpoch + 1 + MAX_SEED_LOOKAHEAD

\* The first transition has moved the finalized epoch on and has activated a
\* validator whose eligibility epoch was not finalized in the pre-state.
C24_Witness ==
    /\ pc = "slashings" /\ transitions = 0
    /\ finalizedEpoch > FinalizedBefore
    /\ \E i \in ActivationList :
          /\ epochProcess.validators[i].activationEligibilityEpoch > FinalizedBefore
          /\ epochProcess.validators[i].activationEligibilityEpoch <= currentEpoch
          /\ Activated(i)

\* The effective balance that the hysteresis rule gives for effective
\* balance e and balance b.
HysteresisOf(e, b) ==
    IF \/ e > b + (EFFECTIVE_BALANCE_INCREMENT \div HYSTERESIS_QUOTIENT)
                    * HYSTERESIS_DOWNWARD_MULTIPLIER
       \/ (/\ e < MAX_EFFECTIVE_BALANCE
           /\ e < b - (EFFECTIVE_BALANCE_INCREMENT \div HYSTERESIS_QUOTIENT)
                        * HYSTERESIS_UPWARD_MULTIPLIER)
    THEN Min(b - (b % EFFECTIVE_BALANCE_INCREMENT), MAX_EFFECTIVE_BALANCE)
    ELSE e

\* C23 as stated: the effective balance that processEffectiveBalanceUpdates
\* leaves is the one the hysteresis rule gives for the balance of the state
\* after processRewardsAndPenalties and processSlashings of the same
\* transition, so a slashing penalty of this transition is taken into account.
C23_AsStated ==
    pc = "afterProcessEpoch" =>
        \A i \in Indices(validators) :
            validators[i].effectiveBalance = HysteresisOf(ReadEffective(i), balances[i])

----------------------------------------------------------------------------
(* Gossip messages arriving one after the other *)

InitGossip ==
    /\ EpochIdle
    /\ jf = GenesisCheckpoints
    /\ slots = NoProcessSlots
    /\ gossip = <<>>
    /\ pool = NoSubmit
    /\ rpc = NoClient
    /\ ApiIdle

\* The handler has settled for one more message.
Deliver(handled) ==
    /\ Len(gossip) < MaxMessages
    /\ gossip' = Append(gossip, handled)
    /\ UNCHANGED <<epochVars, apiVars, jf, slots, pool, rpc>>

OnBeaconBlock ==
    \E validation \in BlockValidations, handlingFails \in BOOLEAN :
        Deliver(beacon_block(validation, handlingFails))

OnBeaconAggregateAndProof ==
    \E validation \in Validations, handlingFails \in BOOLEAN :
        Deliver(beacon_aggregate_and_proof(validation, handlingFails))

OnBeaconAttestation ==
    \E validation \in Validations, shouldProcess \in BOOLEAN, handlingFails \in BOOLEAN :
        Deliver(beacon_attestation(validation, shouldProcess, handlingFails))

OnVoluntaryExit ==
    \E validation \in Validations, handlingFails \in BOOLEAN :
        Deliver(voluntary_exit(validation, handlingFails))

OnProposerSlashing ==
    \E validation \in Validations, handlingFails \in BOOLEAN :
        Deliver(proposer_slashing(validation, handlingFails))

OnAttesterSlashing ==
    \E validation \in Validations, handlingFails \in BOOLEAN :
        Deliver(attester_slashing(validation, handlingFails))

OnSyncCommitteeContributionAndProof ==
    \E validation \in Validations, handlingFails \in BOOLEAN :
        Deliver(sync_committee_contribution_and_proof(validation, handlingFails))

OnSyncCommittee ==
    \E validation \in Validations, handlingFails \in BOOLEAN :
        Deliver(sync_committee(validation, handlingFails))

NextGossip ==
    \/ OnBeaconBlock
    \/ OnBeaconAggregateAndProof
    \/ OnBeaconAttestation
    \/ OnVoluntaryExit
    \/ OnProposerSlashing
    \/ OnAttesterSlashing
    \/ OnSyncCommitteeContributionAndProof
    \/ OnSyncCommittee

SpecGossip == InitGossip /\ [][NextGossip]_vars

\* C20 as stated: for every gossip type, a handler whose validation succeeded
\* resolves without throwing, whether or not its handling step fails.
C20_AsStated ==
    \A k \in 1..Len(gossip) :
        gossip[k].validation = "ok" =>
            (gossip[k].settled = "resolved" /\ gossip[k].thrown = "none")

\* C32: the beacon_block handler passes the block to chain.receiveBlock
\* exactly once when validation succeeds or fails with FUTURE_SLOT or
\* PARENT_UNKNOWN, and never when validation fails with another error; when
\* validation fails, the handler rejects with the validation error.
C32_ReceiveBlockOnce ==
    \A k \in 1..Len(gossip) :
        gossip[k].type = "beacon_block" =>
            /\ gossip[k].receiveBlock =
                   (IF gossip[k].validation \in {"ok", "FUTURE_SLOT", "PARENT_UNKNOWN"}
                    THEN 1 ELSE 0)
            /\ gossip[k].validation # "ok" =>
                   (gossip[k].settled = "rejected" /\ gossip[k].thrown = gossip[k].validation)
            /\ gossip[k].validation = "ok" => gossip[k].settled = "resolved"

\* Two blocks handled: one ahead of the clock, passed to the chain and
\* rejected with FUTURE_SLOT though the block job failed, and one invalid,
\* not passed to the chain.
C32_Witness ==
    \E j, k \in 1..Len(gossip) :
        /\ gossip[j].type = "beacon_block" /\ gossip[k].type = "beacon_block"
        /\ gossip[j].validation = "FUTURE_SLOT" /\ gossip[j].handlingFails
        /\ gossip[j].receiveBlock = 1 /\ gossip[j].thrown = "FUTURE_SLOT"
        /\ gossip[k].validation = "INVALID" /\ gossip[k].receiveBlock = 0
        /\ gossip[k].thrown = "INVALID"

----------------------------------------------------------------------------
(* A call of submitPoolSyncCommitteeSignatures: the mapped functions settle  *)
(* in any order, then the call does                                          *)

\* Positions of a validator in the sync committee: none, one, two in
\* different subnets.
CommitteePositions == {<<>>, <<3>>, <<1, 9>>}

SyncSignatures ==
    {SyncSignature(indexes, "INVALID", 0, 0) : indexes \in CommitteePositions}
    \cup UNION {{SyncSignature(indexes, "ok", addThrows, publishFails) :
                    addThrows \in 0..Len(indexes), publishFails \in 0..Len(indexes)} :
                indexes \in CommitteePositions}

InitPool ==
    /\ EpochIdle
    /\ jf = GenesisCheckpoints
    /\ slots = NoProcessSlots
    /\ gossip = <<>>
    /\ rpc = NoClient
    /\ ApiIdle
    /\ \E n \in 0..MaxSignatures : \E signatures \in SeqsOfLen(SyncSignatures, n) :
          pool = [NoSubmit EXCEPT !.signatures = signatures, !.pc = "running"]

\* The function mapped over the signatures has settled for signature i.
SignatureSettles ==
    /\ pool.pc = "running"
    /\ \E i \in (1..Len(pool.signatures)) \ pool.settled :
          LET r == perSignature(pool.signatures[i])
          IN pool' = [pool EXCEPT
                 !.settled = @ \cup {i},
                 !.added = @ \cup {<<i, a[1], a[2]>> : a \in r.added},
                 !.published = @ \cup {<<i, s>> : s \in r.published},
                 !.errors = IF r.error THEN Append(@, i) ELSE @]
    /\ UNCHANGED <<epochVars, apiVars, jf, slots, gossip, rpc>>

\* The outer Promise.all has settled: the call returns or throws.
SubmitSettles ==
    /\ pool.pc = "running"
    /\ pool.settled = 1..Len(pool.signatures)
    /\ pool' = [pool EXCEPT !.thrown = submitThrows(pool.errors),
                            !.pc = IF Len(pool.errors) = 0 THEN "resolved" ELSE "rejected"]
    /\ UNCHANGED <<epochVars, apiVars, jf, slots, gossip, rpc>>

NextPool ==
    \/ SignatureSettles
    \/ SubmitSettles

SpecPool == InitPool /\ [][NextPool]_vars

\* C21 as stated: every submitted signature that passed validation is in the
\* sync committee message pool and was published on the subnet of each
\* position its validator holds, whatever happened to the other signatures.
C21_AsStated ==
    \A i \in pool.settled :
        LET sig == pool.signatures[i]
        IN sig.validation = "ok" =>
             \A k \in 1..Len(sig.indexesInCommittee) :
                 /\ <<i, subnetOf(sig.indexesInCommittee[k]),
                        indexInSubCommitteeOf(sig.indexesInCommittee[k])>> \in pool.added
                 /\ <<i, subnetOf(sig.indexesInCommittee[k])>> \in pool.published

----------------------------------------------------------------------------
(* A JsonRpcHttpClient: constructed, then asked to fetch *)

UrlNames == {"http://a", "http://b", ""}

UrlLists == UNION {SeqsOfLen(UrlNames, n) : n \in 0..MaxUrls}

FallbackOptions ==
    {NoShouldNotFallback} \cup {ShouldNotFallback(stops) : stops \in SUBSET RequestErrors}

InitRpc ==
    /\ EpochIdle
    /\ jf = GenesisCheckpoints
    /\ slots = NoProcessSlots
    /\ gossip = <<>>
    /\ pool = NoSubmit
    /\ ApiIdle
    /\ \E urls \in UrlLists, opts \in FallbackOptions :
          rpc = [NoClient EXCEPT !.urls = urls, !.opts = opts, !.constructed = "new"]

\* new JsonRpcHttpClient(urls, opts)
Construct ==
    /\ rpc.constructed = "new"
    /\ rpc' = [rpc EXCEPT !.constructed =
                   IF constructorThrows(rpc.urls) THEN "threw" ELSE "ok"]
    /\ UNCHANGED <<epochVars, apiVars, jf, slots, gossip, pool>>

\* client.fetch(payload): each URL's request comes out one way or another.
Fetch ==
    /\ rpc.constructed = "ok"
    /\ rpc.fetches < MaxFetches
    /\ \E outcomes \in SeqsOfLen(RequestOutcomes, Len(rpc.urls)) :
          rpc' = [rpc EXCEPT
                    !.fetches = @ + 1,
                    !.last = [outcomes |-> outcomes,
                              json |-> fetchJson(rpc.urls, rpc.opts, outcomes, 1, NoError, <<>>),
                              res |-> fetch(rpc.urls, rpc.opts, outcomes)]]
    /\ UNCHANGED <<epochVars, apiVars, jf, slots, gossip, pool>>

NextRpc ==
    \/ Construct
    \/ Fetch

SpecRpc == InitRpc /\ [][NextRpc]_vars

\* The request to URL k of the latest fetch failed with an error.
RequestFailed(k) == rpc.last.outcomes[k] \in RequestErrors

\* shouldNotFallback is given and returns true for the error of URL k.
StopsAt(k) == rpc.opts.present /\ rpc.last.outcomes[k] \in rpc.opts.stops

\* C22: when the request to a URL fails with an error for which
\* shouldNotFallback returns true, fetchJson and fetch throw that error and no
\* later URL is contacted; when shouldNotFallback is absent or returns false
\* and the list has a next URL, that URL is contacted next.
C22_ShouldNotFallback ==
    rpc.fetches > 0 =>
        LET contacted == rpc.last.json.contacted
        IN \A n \in 1..Len(contacted) :
             LET k == contacted[n]
             IN RequestFailed(k) =>
                  IF StopsAt(k)
                  THEN /\ n = Len(contacted)
                       /\ rpc.last.json = Settled(contacted, "thrown", k, rpc.last.outcomes[k])
                       /\ rpc.last.res = rpc.last.json
                  ELSE k < Len(rpc.urls) =>
                          (n < Len(contacted) /\ contacted[n + 1] = k + 1)

\* Of three URLs the first failed with an error shouldNotFallback lets pass
\* and the second with one it stops at.
C22_Witness ==
    /\ rpc.fetches > 0
    /\ Len(rpc.urls) = 3
    /\ RequestFailed(1) /\ ~StopsAt(1)
    /\ RequestFailed(2) /\ StopsAt(2)
    /\ rpc.last.res = Settled(<<1, 2>>, "thrown", 2, rpc.last.outcomes[2])

\* C30: fetch contacts the URLs one at a time in list order; when it returns,
\* it returns the result of the last URL contacted, all URLs before it have
\* failed and none after it is contacted, and a result of the first URL that
\* did not fail is always returned; when the requests to all URLs fail it
\* throws the error of the last URL contacted; no client is constructed from
\* an empty list or a list with an empty URL.
C30_FetchInListOrder ==
    /\ rpc.constructed = "ok" =>
          (Len(rpc.urls) > 0 /\ \A i \in 1..Len(rpc.urls) : rpc.urls[i] # "")
    /\ (Len(rpc.urls) = 0 \/ \E i \in 1..Len(rpc.urls) : rpc.urls[i] = "") =>
          (rpc.constructed \in {"new", "threw"} /\ rpc.fetches = 0)
    /\ rpc.fetches > 0 =>
          LET contacted == rpc.last.res.contacted
              m == Len(contacted)
          IN /\ m >= 1
             /\ contacted = [n \in 1..m |-> n]
             /\ \A k \in 1..(m - 1) : RequestFailed(k)
             /\ rpc.last.outcomes[m] = "result" =>
                    rpc.last.res = Settled(contacted, "returned", m, "result")
             /\ rpc.last.res.settled = "returned" =>
                    (rpc.last.res.from = m /\ rpc.last.outcomes[m] = "result")
             /\ (\A k \in 1..Len(rpc.urls) : RequestFailed(k)) =>
                    rpc.last.res = Settled(contacted, "thrown", m, rpc.last.outcomes[m])

\* Of three URLs the first failed and the second answered with a result; the
\* third would have failed.
C30_Witness ==
    /\ rpc.fetches > 0
    /\ Len(rpc.urls) = 3
    /\ RequestFailed(1)
    /\ RequestFailed(3)
    /\ rpc.last.res = Settled(<<1, 2>>, "returned", 2, "result")

----------------------------------------------------------------------------
(* Properties of processSlots *)

\* The state handed to processSlots, as it is now.
InputState == slots.heap[slots.input]

\* C16: processSlots called with target_slot <= state.slot fails with SlotBehind,
\* runs no epoch transition, and leaves the state's slot (and the state) as it
\* was; it never gets to the loop or to a result.
C16_SlotBehind ==
    (slots.pc # "idle" /\ slots.pc # "call" /\ slots.target <= slots.given.slot) =>
        /\ slots.pc = "failed"
        /\ slots.error = "SlotBehind"
        /\ slots.epochsRun = <<>>
        /\ slots.post = 0
        /\ InputState = slots.given

\* processSlots has failed on a target equal to the state's slot.
C16_Witness ==
    /\ slots.pc = "failed"
    /\ slots.target = slots.given.slot
    /\ slots.error = "SlotBehind"

\* The slots s of the call with (s + 1) % SLOTS_PER_EPOCH = 0.
EpochBoundaries ==
    {s \in slots.given.slot..(slots.target - 1) : (s + 1) % SLOTS_PER_EPOCH = 0}

\* C17: processSlots with state.slot < target_slot returns a state whose slot is
\* target_slot, having run the epoch transition exactly once at each slot s
\* with state.slot <= s < target_slot and (s + 1) % SLOTS_PER_EPOCH = 0, in
\* ascending order, while the slot counter was still s, and at no other slot.
C17_EpochTransitionAtBoundaries ==
    /\ slots.pc = "returned" =>
          /\ slots.given.slot < slots.target
          /\ slots.heap[slots.post].slot = slots.target
          /\ SeqToSet(slots.epochsRun) = EpochBoundaries
          /\ Len(slots.epochsRun) = Cardinality(EpochBoundaries)
    /\ slots.pc = "loop" =>
          /\ \A k \in 1..Len(slots.epochsRun) :
                /\ (slots.epochsRun[k] + 1) % SLOTS_PER_EPOCH = 0
                /\ slots.epochsRun[k] < slots.heap[slots.post].slot
                /\ k > 1 => slots.epochsRun[k - 1] < slots.epochsRun[k]
          /\ \A s \in slots.given.slot..(slots.heap[slots.post].slot - 1) :
                (s + 1) % SLOTS_PER_EPOCH = 0 => s \in SeqToSet(slots.epochsRun)

\* processSlots has returned after two epoch transitions, from a start that
\* was itself the last slot of an epoch.
C17_Witness ==
    /\ slots.pc = "returned"
    /\ (slots.given.slot + 1) % SLOTS_PER_EPOCH = 0
    /\ Len(slots.epochsRun) = 2
    /\ slots.heap[slots.post].slot = slots.target

\* C18: the state given to processSlots keeps its slot, validators and
\* balances: while the post-state is computed, after it is returned, and after
\* the caller has changed the post-state.
C18_InputNotMutated ==
    slots.pc # "idle" => InputState = slots.given

\* The post-state went through an epoch transition that changed balances and
\* validators, and was then changed by the caller.
C18_Witness ==
    /\ slots.pc = "mutated"
    /\ slots.epochsRun # <<>>
    /\ slots.heap[slots.post].balances # slots.given.balances
    /\ slots.heap[slots.post].validators # slots.given.validators
    /\ InputState = slots.given


----------------------------------------------------------------------------
(* Properties of the statuses and the stakes of the summary *)

\* The effective balances of the validators whose status has both the
\* UNSLASHED flag and the given flag, summed and floored at one increment.
FlooredStakeOf(flag) ==
    Max(EFFECTIVE_BALANCE_INCREMENT,
        SumSeq([i \in 1..Len(validators) |->
            IF /\ "UNSLASHED" \in epochProcess.statusesFlat[i].flags
               /\ flag \in epochProcess.statusesFlat[i].flags
            THEN validators[i].effectiveBalance ELSE 0]))

\* C25: in the summary, each of the previous-epoch source, target and head
\* unslashed stakes and the current-epoch target unslashed stake is the
\* maximum of EFFECTIVE_BALANCE_INCREMENT and the sum of the effective
\* balances of the validators whose status has both the UNSLASHED flag and the
\* participation flag of that stake; a validator lacking either flag adds
\* nothing.
C25_UnslashedStakes ==
    SummaryBuilt =>
        /\ Len(epochProcess.statusesFlat) = Len(validators)
        /\ epochProcess.prevEpochUnslashedStake.sourceStake = FlooredStakeOf("PREV_SOURCE")
        /\ epochProcess.prevEpochUnslashedStake.targetStake = FlooredStakeOf("PREV_TARGET")
        /\ epochProcess.prevEpochUnslashedStake.headStake = FlooredStakeOf("PREV_HEAD")
        /\ epochProcess.currEpochUnslashedTargetStake = FlooredStakeOf("CURR_TARGET")

\* A summary with a slashed validator and an unslashed one both carrying the
\* previous-epoch target flag, a target stake above the floor, and a head
\* stake at the floor because nobody carries the head flag.
C25_Witness ==
    /\ SummaryBuilt
    /\ \E i, j \in 1..Len(validators) :
        /\ validators[i].slashed /\ ~validators[j].slashed
        /\ "PREV_TARGET" \in epochProcess.statusesFlat[i].flags
        /\ "PREV_TARGET" \in epochProcess.statusesFlat[j].flags
        /\ epochProcess.prevEpochUnslashedStake.targetStake = validators[j].effectiveBalance
    /\ epochProcess.prevEpochUnslashedStake.targetStake > EFFECTIVE_BALANCE_INCREMENT
    /\ \A i \in 1..Len(validators) : "PREV_HEAD" \notin epochProcess.statusesFlat[i].flags
    /\ epochProcess.prevEpochUnslashedStake.headStake = EFFECTIVE_BALANCE_INCREMENT

\* C26: in the summary, a validator's status has the ELIGIBLE_ATTESTER flag if
\* and only if the validator is active at prevEpoch or it is slashed and
\* prevEpoch + 1 < withdrawableEpoch.
C26_EligibleAttester ==
    SummaryBuilt =>
        \A i \in 1..Len(validators) :
            "ELIGIBLE_ATTESTER" \in epochProcess.statusesFlat[i].flags
            <=> \/ /\ validators[i].activationEpoch <= epochProcess.prevEpoch
                   /\ epochProcess.prevEpoch < validators[i].exitEpoch
                \/ /\ validators[i].slashed
                   /\ epochProcess.prevEpoch + 1 < validators[i].withdrawableEpoch

\* A summary with two slashed validators not active at prevEpoch: one
\* withdrawable at prevEpoch + 1, without the flag, and one withdrawable at
\* prevEpoch + 2, with it; and a validator active at prevEpoch only, with it.
C26_Witness ==
    /\ SummaryBuilt
    /\ epochProcess.prevEpoch + 1 = currentEpoch
    /\ \E i, j \in 1..Len(validators) :
        /\ validators[i].slashed /\ validators[j].slashed
        /\ validators[i].exitEpoch <= epochProcess.prevEpoch
        /\ validators[j].exitEpoch <= epochProcess.prevEpoch
        /\ validators[i].withdrawableEpoch = epochProcess.prevEpoch + 1
        /\ validators[j].withdrawableEpoch = epochProcess.prevEpoch + 2
        /\ "ELIGIBLE_ATTESTER" \notin epochProcess.statusesFlat[i].flags
        /\ "ELIGIBLE_ATTESTER" \in epochProcess.statusesFlat[j].flags

AttestingFlagNames ==
    {"PREV_SOURCE", "PREV_TARGET", "PREV_HEAD", "CURR_SOURCE", "CURR_TARGET", "CURR_HEAD"}

\* The flags that the pending attestations give validator i: the source flag
\* for being an attester, the target flag with a matching target, the head
\* flag with matching target and head.
FlagsOfAttestations(atts, i, sourceFlag, targetFlag, headFlag) ==
    {f \in {sourceFlag, targetFlag, headFlag} :
        \E k \in 1..Len(atts) :
            /\ i \in atts[k].attesters
            /\ f = targetFlag => atts[k].target
            /\ f = headFlag => atts[k].target /\ atts[k].head}

\* C27: past the phase 0 fork, PREV_SOURCE, PREV_TARGET and PREV_HEAD are in
\* validator i's status exactly when the timely-source, timely-target and
\* timely-head bits of previousEpochParticipation[i] are set, and CURR_SOURCE,
\* CURR_TARGET and CURR_HEAD exactly from currentEpochParticipation[i]; in
\* phase 0 the participation lists are not read and the six flags come only
\* from the pending attestations.
C27_ParticipationFlags ==
    SummaryBuilt =>
        \A i \in 1..Len(validators) :
            LET flags == epochProcess.statusesFlat[i].flags
                prev == participation.previousEpochParticipation[i]
                curr == participation.currentEpochParticipation[i]
            IN IF fork # "phase0"
               THEN /\ "PREV_SOURCE" \in flags <=> "timelySource" \in prev
                    /\ "PREV_TARGET" \in flags <=> "timelyTarget" \in prev
                    /\ "PREV_HEAD" \in flags <=> "timelyHead" \in prev
                    /\ "CURR_SOURCE" \in flags <=> "timelySource" \in curr
                    /\ "CURR_TARGET" \in flags <=> "timelyTarget" \in curr
                    /\ "CURR_HEAD" \in flags <=> "timelyHead" \in curr
               ELSE flags \cap AttestingFlagNames =
                        FlagsOfAttestations(participation.previousEpochAttestations, i,
                                            "PREV_SOURCE", "PREV_TARGET", "PREV_HEAD")
                        \cup FlagsOfAttestations(participation.currentEpochAttestations, i,
                                                 "CURR_SOURCE", "CURR_TARGET", "CURR_HEAD")

\* An Altair summary where a validator has the timely-target bit alone for the
\* previous epoch, the timely-source bit alone for the current epoch, and
\* pending attestations that would give it all three previous-epoch flags.
C27_Witness ==
    /\ SummaryBuilt
    /\ fork = "altair"
    /\ \E i \in 1..Len(validators) :
        /\ participation.previousEpochParticipation[i] = {"timelyTarget"}
        /\ participation.currentEpochParticipation[i] = {"timelySource"}
        /\ epochProcess.statusesFlat[i].flags \cap AttestingFlagNames
               = {"PREV_TARGET", "CURR_SOURCE"}
        /\ FlagsOfAttestations(participation.previousEpochAttestations, i,
                               "PREV_SOURCE", "PREV_TARGET", "PREV_HEAD")
               = {"PREV_SOURCE", "PREV_TARGET", "PREV_HEAD"}

----------------------------------------------------------------------------
(* Properties of the activation queue over several transitions *)

\* C28: a validator of indicesEligibleForActivationQueue gets
\* activationEligibilityEpoch = currentEpoch + 1 in processRegistryUpdates and
\* keeps it, with its activationEpoch untouched, to the end of that epoch
\* transition; whenever a step sets a validator's activationEpoch, the
\* validator is not one queued by the running transition and the new
\* activationEpoch is strictly greater than its activationEligibilityEpoch.
C28_QueuedThenActivatedLater ==
    [][/\ SummaryBuilt =>
            \A i \in SeqToSet(epochProcess.indicesEligibleForActivationQueue) :
                /\ validators'[i].activationEpoch = validators[i].activationEpoch
                /\ pc = "registry" =>
                       validators'[i].activationEligibilityEpoch = currentEpoch + 1
                /\ pc \in {"slashings", "effectiveBalance", "afterProcessEpoch"} =>
                       /\ validators[i].activationEligibilityEpoch = currentEpoch + 1
                       /\ validators'[i].activationEligibilityEpoch = currentEpoch + 1
       /\ \A i \in 1..Len(validators) :
            validators'[i].activationEpoch # validators[i].activationEpoch =>
                /\ validators'[i].activationEpoch > validators'[i].activationEligibilityEpoch
                /\ i \notin SeqToSet(epochProcess.indicesEligibleForActivationQueue)
      ]_vars

\* A validator queued by the first transition, hence with
\* activationEligibilityEpoch = InitEpoch + 1, and activated by the third.
C28_Witness ==
    /\ transitions >= 2
    /\ \E i \in 1..Len(validators) :
        /\ validators[i].activationEligibilityEpoch = InitEpoch + 1
        /\ validators[i].activationEpoch = computeActivationExitEpoch(InitEpoch + 2)

----------------------------------------------------------------------------
(* The frame of processSlashings *)

\* C29: the processSlashings step changes nothing but the balances of the
\* indices in indicesToSlash: validators, state.slashings, the balances of all
\* other indices, the summary and the rest of the state are unchanged, and
\* with an empty indicesToSlash the whole state is unchanged.
C29_SlashingsFrame ==
    [][pc = "slashings" =>
        /\ validators' = validators
        /\ slashings' = slashings
        /\ epochProcess' = epochProcess
        /\ <<fork, currentEpoch, finalizedEpoch, effectiveBalances, churnLimit,
             participation>>' =
           <<fork, currentEpoch, finalizedEpoch, effectiveBalances, churnLimit,
             participation>>
        /\ Len(balances') = Len(balances)
        /\ \A i \in 1..Len(balances) :
              i \notin SeqToSet(epochProcess.indicesToSlash) => balances'[i] = balances[i]
        /\ epochProcess.indicesToSlash = <<>> => balances' = balances
      ]_vars

\* processSlashings has just lowered the balance of an index of
\* indicesToSlash and left the positive balance of another index as it was
\* after the rewards.
C29_Witness ==
    /\ pc = "effectiveBalance"
    /\ \E i, j \in 1..Len(balances) :
        /\ i \in SeqToSet(epochProcess.indicesToSlash)
        /\ j \notin SeqToSet(epochProcess.indicesToSlash)
        /\ balances[i] < epochProcess.balancesFlat[i]
        /\ balances[j] = epochProcess.balancesFlat[j]
        /\ balances[j] > 0

----------------------------------------------------------------------------
(* Completeness of indicesToEject *)

\* C36: in the summary just built, indicesToEject contains every validator
\* that is active at currentEpoch, has exitEpoch = FAR_FUTURE_EPOCH and an
\* effectiveBalance <= EJECTION_BALANCE: none is lost to an earlier rung of
\* the ladder.
C36_EjectListComplete ==
    pc = "justification" =>
        \A i \in 1..Len(validators) :
            (/\ validators[i].activationEpoch <= currentEpoch
             /\ currentEpoch < validators[i].exitEpoch
             /\ validators[i].exitEpoch = FAR_FUTURE_EPOCH
             /\ validators[i].effectiveBalance <= EJECTION_BALANCE)
            => i \in SeqToSet(epochProcess.indicesToEject)

\* The summary of a second transition, with a validator whose effective
\* balance the first transition lowered below EJECTION_BALANCE in the list.
C36_Witness ==
    /\ pc = "justification"
    /\ transitions = 1
    /\ \E i \in 1..Len(validators) :
        /\ validators[i].activationEpoch <= currentEpoch
        /\ validators[i].exitEpoch = FAR_FUTURE_EPOCH
        /\ validators[i].effectiveBalance < EJECTION_BALANCE
        /\ i \in SeqToSet(epochProcess.indicesToEject)

----------------------------------------------------------------------------
(* nextEpochActiveValidatorIndices against the post-state *)

\* C37: at the end of every epoch transition, nextEpochActiveValidatorIndices,
\* computed from the pre-state, lists in ascending index order exactly the
\* validators of the post-state that are active at currentEpoch + 1: the
\* ejections and activations of processRegistryUpdates change nobody's
\* activity at currentEpoch + 1.
C37_NextEpochActiveIndices ==
    pc = "afterProcessEpoch" =>
        LET list == epochProcess.nextEpochActiveValidatorIndices
        IN /\ \A k \in 1..(Len(list) - 1) : list[k] < list[k + 1]
           /\ {list[k] : k \in 1..Len(list)} =
                  {i \in 1..Len(validators) :
                      /\ validators[i].activationEpoch <= currentEpoch + 1
                      /\ currentEpoch + 1 < validators[i].exitEpoch}

\* The end of a transition whose processRegistryUpdates ejected one validator,
\* still in the list, and activated another, not in the list.
C37_Witness ==
    /\ pc = "afterProcessEpoch"
    /\ \E i, j \in 1..Len(validators) :
        /\ i \in SeqToSet(epochProcess.indicesToEject)
        /\ validators[i].exitEpoch # FAR_FUTURE_EPOCH
        /\ i \in SeqToSet(epochProcess.nextEpochActiveValidatorIndices)
        /\ j \in SeqToSet(epochProcess.indicesEligibleForActivation)
        /\ validators[j].activationEpoch = computeActivationExitEpoch(currentEpoch)
        /\ j \notin SeqToSet(epochProcess.nextEpochActiveValidatorIndices)

----------------------------------------------------------------------------
(* Concurrent calls of writeHeapdump *)

InitHeapdump ==
    /\ EpochIdle
    /\ jf = GenesisCheckpoints
    /\ slots = NoProcessSlots
    /\ gossip = <<>>
    /\ pool = NoSubmit
    /\ rpc = NoClient
    /\ proposing = NoProposing
    /\ submitted = NoAttestations
    /\ requests = NoRequests
    /\ \E nodejs \in BOOLEAN :
          heapdump = [nodejs |-> nodejs, writingHeapdump |-> FALSE,
                      calls |-> [k \in 1..MaxCalls |-> "notCalled"]]

\* A caller calls writeHeapdump: the call runs up to its first await.
CallWriteHeapdump ==
    /\ \E k \in 1..Len(heapdump.calls) :
        /\ heapdump.calls[k] = "notCalled"
        /\ heapdump' = [heapdump EXCEPT
               !.calls[k] = writeHeapdumpEnters(heapdump.nodejs, heapdump.writingHeapdump)]
    /\ UNCHANGED <<epochVars, jf, slots, gossip, pool, rpc, proposing, submitted, requests>>

\* The imports of a call are done: the snapshot and the file stream are
\* created, writingHeapdump is set and the snapshot is piped (lines 52-63).
StartWriting ==
    /\ \E k \in 1..Len(heapdump.calls) :
        /\ heapdump.calls[k] = "importing"
        /\ heapdump' = [heapdump EXCEPT !.calls[k] = "writing", !.writingHeapdump = TRUE]
    /\ UNCHANGED <<epochVars, jf, slots, gossip, pool, rpc, proposing, submitted, requests>>

\* The snapshot stream of a call has ended: the call returns and its finally
\* block clears writingHeapdump (lines 64-69).
SnapshotEnds ==
    /\ \E k \in 1..Len(heapdump.calls) :
        /\ heapdump.calls[k] = "writing"
        /\ heapdump' = [heapdump EXCEPT !.calls[k] = "returned", !.writingHeapdump = FALSE]
    /\ UNCHANGED <<epochVars, jf, slots, gossip, pool, rpc, proposing, submitted, requests>>

NextHeapdump == CallWriteHeapdump \/ StartWriting \/ SnapshotEnds

SpecHeapdump == InitHeapdump /\ [][NextHeapdump]_vars

\* The calls that have been made and have not settled.
InProgress == {k \in 1..Len(heapdump.calls) : heapdump.calls[k] \in {"importing", "writing"}}

\* C34 (as stated): at most one call is writing a heap snapshot at any time,
\* and writingHeapdump is false once no call is in progress.
C34_AsStated ==
    /\ Cardinality({k \in 1..Len(heapdump.calls) : heapdump.calls[k] = "writing"}) <= 1
    /\ InProgress = {} => ~heapdump.writingHeapdump

\* The flag is false again once no call is in progress.
HeapdumpFlagClearedAtRest ==
    InProgress = {} => ~heapdump.writingHeapdump

\* A call made while writingHeapdump is set fails with 'Already writing
\* heapdump'.
HeapdumpRefusedWhileFlagSet ==
    [][\A k \in 1..Len(heapdump.calls) :
          (heapdump.calls[k] = "notCalled" /\ heapdump'.calls[k] # "notCalled"
           /\ heapdump.nodejs /\ heapdump.writingHeapdump)
          => heapdump'.calls[k] = "Already writing heapdump"]_vars

----------------------------------------------------------------------------
(* The block service notified of a slot: the proposers' requests settle in   *)
(* any order                                                                  *)

InitProposing ==
    /\ EpochIdle
    /\ jf = GenesisCheckpoints
    /\ slots = NoProcessSlots
    /\ gossip = <<>>
    /\ pool = NoSubmit
    /\ rpc = NoClient
    /\ heapdump = NoHeapdump
    /\ submitted = NoAttestations
    /\ requests = NoRequests
    /\ \E slot \in 0..MaxSlot, n \in 0..MaxProposers :
        \E failing \in SeqsOfLen(0..Len(Requests), n) :
          proposing = [NoProposing EXCEPT
                          !.slot = slot,
                          !.proposers = [k \in 1..n |-> Proposer(failing[k])]]

\* BlockDutiesService calls notifyBlockProductionFn(slot, proposers).
NotifyBlockProduction ==
    /\ ~proposing.notified
    /\ proposing' = notifyBlockProductionFn(proposing)
    /\ UNCHANGED <<epochVars, jf, slots, gossip, pool, rpc, heapdump, submitted, requests>>

\* The request that a proposer's createAndPublishBlock awaits settles.
RequestSettles ==
    /\ \E k \in 1..Len(proposing.proposers) :
        /\ proposing.proposers[k].settled = "pending"
        /\ proposing' = [proposing EXCEPT !.proposers[k] = resume(@)]
    /\ UNCHANGED <<epochVars, jf, slots, gossip, pool, rpc, heapdump, submitted, requests>>

NextProposing == NotifyBlockProduction \/ RequestSettles

SpecProposing == InitProposing /\ [][NextProposing]_vars

\* The requests of a proposer that have succeeded.
Succeeded(p) ==
    IF p.settled = "published" THEN p.requests
    ELSE SubSeq(p.requests, 1, Len(p.requests) - 1)

\* C35: publishBlock is requested for a proposer only after signRandao,
\* produceBlock and signBlock have succeeded for it in that order; nothing is
\* requested for a slot <= GENESIS_SLOT; notifyBlockProductionFn throws
\* nothing; and whatever happens to the other proposers of the slot, a
\* proposer none of whose requests fails goes on to publish: its work is never
\* ended by another's failure, and it has published once all have settled.
C35_PublishAfterSigning ==
    /\ ~proposing.threw
    /\ \A k \in 1..Len(proposing.proposers) :
        LET p == proposing.proposers[k]
        IN /\ proposing.slot <= GENESIS_SLOT => p.requests = <<>>
           /\ (\E n \in 1..Len(p.requests) : p.requests[n] = "publishBlock") =>
                  /\ p.requests = <<"signRandao", "produceBlock", "signBlock", "publishBlock">>
                  /\ p.failsAt \notin 1..3
                  /\ SubSeq(Succeeded(p), 1, 3) = <<"signRandao", "produceBlock", "signBlock">>
           /\ p.settled = "published" => p.failsAt = 0
           /\ (proposing.notified /\ proposing.slot > GENESIS_SLOT /\ p.failsAt = 0) =>
                  p.settled \in {"pending", "published"}
           /\ (/\ proposing.notified /\ proposing.slot > GENESIS_SLOT /\ p.failsAt = 0
               /\ \A j \in 1..Len(proposing.proposers) :
                      proposing.proposers[j].settled # "pending")
              => p.settled = "published"

\* Two proposers of a slot after genesis: the first failed at produceBlock
\* and was caught, the second has published.
C35_Witness ==
    /\ proposing.slot > GENESIS_SLOT
    /\ Len(proposing.proposers) = 2
    /\ proposing.proposers[1].settled = "caught"
    /\ proposing.proposers[1].logged = "Failed to produce block"
    /\ proposing.proposers[2].settled = "published"
    /\ ~proposing.threw

----------------------------------------------------------------------------
(* A call of submitPoolAttestations: validations and publishes settle in any *)
(* order, then the call does                                                  *)

Attestations ==
    {Attestation("INVALID", FALSE, FALSE)}
    \cup {Attestation("ok", publishFails, addThrows) :
              publishFails \in BOOLEAN, addThrows \in BOOLEAN}

InitAttestations ==
    /\ EpochIdle
    /\ jf = GenesisCheckpoints
    /\ slots = NoProcessSlots
    /\ gossip = <<>>
    /\ pool = NoSubmit
    /\ rpc = NoClient
    /\ heapdump = NoHeapdump
    /\ proposing = NoProposing
    /\ requests = NoRequests
    /\ \E n \in 0..MaxAttestations : \E atts \in SeqsOfLen(Attestations, n) :
          submitted = [NoAttestations EXCEPT !.attestations = atts,
                                             !.validating = 1..n,
                                             !.pc = "running"]

\* validateGossipAttestation has settled for attestation i.
ValidationSettles ==
    /\ \E i \in submitted.validating : submitted' = afterValidation(submitted, i)
    /\ UNCHANGED <<epochVars, jf, slots, gossip, pool, rpc, heapdump, proposing, requests>>

\* publishBeaconAttestation has settled for attestation i.
PublishSettles ==
    /\ \E i \in submitted.inFlight : submitted' = afterPublish(submitted, i)
    /\ UNCHANGED <<epochVars, jf, slots, gossip, pool, rpc, heapdump, proposing, requests>>

\* The Promise.all of the map has settled: the call returns or throws.
SubmitAttestationsSettles ==
    /\ submitted.pc = "running"
    /\ mapSettled(submitted)
    /\ submitted' = [submitted EXCEPT
           !.thrown = submitPoolAttestationsThrows(submitted.errors),
           !.pc = IF Len(submitted.errors) = 0 THEN "resolved" ELSE "rejected"]
    /\ UNCHANGED <<epochVars, jf, slots, gossip, pool, rpc, heapdump, proposing, requests>>

NextAttestations ==
    \/ ValidationSettles
    \/ PublishSettles
    \/ SubmitAttestationsSettles

SpecAttestations == InitAttestations /\ [][NextAttestations]_vars

\* The attestations of the call whose validation, publish or add fails.
FailedAttestations ==
    {i \in 1..Len(submitted.attestations) :
        \/ submitted.attestations[i].validation # "ok"
        \/ submitted.attestations[i].publishFails
        \/ submitted.attestations[i].addThrows}

----------------------------------------------------------------------------
(* A fetchJson call and the parent abort signal *)

\* The errors that shouldNotFallback may answer true for.
AbortStops == {{}, {"AbortError"}, {"HttpRpcError"}}

InitRequests ==
    /\ EpochIdle
    /\ jf = GenesisCheckpoints
    /\ slots = NoProcessSlots
    /\ gossip = <<>>
    /\ pool = NoSubmit
    /\ rpc = NoClient
    /\ heapdump = NoHeapdump
    /\ proposing = NoProposing
    /\ submitted = NoAttestations
    /\ \E n \in 1..MaxUrls, stops \in AbortStops :
          requests = [NoRequests EXCEPT !.urls = n, !.stops = stops]

\* fetchJson is called: the request to the first URL starts.
StartFetchJson ==
    /\ requests.phase = "idle"
    /\ requests' = fetchJsonOneUrl(requests, 1)
    /\ UNCHANGED <<epochVars, jf, slots, gossip, pool, rpc, heapdump, proposing, submitted>>

\* The owner of the parent signal aborts it.
ParentSignalAborts ==
    /\ ~requests.signalAborted
    /\ requests' = parentSignalAborts(requests)
    /\ UNCHANGED <<epochVars, jf, slots, gossip, pool, rpc, heapdump, proposing, submitted>>

\* The pending fetch rejects: a network error, or the request's own timeout.
RequestFails ==
    /\ requests.phase = "headers"
    /\ \E error \in {"NetworkError", "AbortError"} :
          requests' = requestThrew(requests, error)
    /\ UNCHANGED <<epochVars, jf, slots, gossip, pool, rpc, heapdump, proposing, submitted>>

\* The response arrives: the finally of lines 121-124 clears the timeout and
\* removes the listener, and the body is read.
ResponseArrives ==
    /\ requests.phase = "headers"
    /\ requests' = [requests EXCEPT !.phase = "body", !.listening = FALSE]
    /\ UNCHANGED <<epochVars, jf, slots, gossip, pool, rpc, heapdump, proposing, submitted>>

\* The body has been read: the call returns the parsed body, or the status
\* was not ok and an HttpRpcError is thrown.
BodyArrives ==
    /\ requests.phase = "body"
    /\ \/ requests' = [requests EXCEPT !.phase = "done", !.result = "returned"]
       \/ requests' = requestThrew(requests, "HttpRpcError")
    /\ UNCHANGED <<epochVars, jf, slots, gossip, pool, rpc, heapdump, proposing, submitted>>

NextRequests ==
    \/ StartFetchJson
    \/ ParentSignalAborts
    \/ RequestFails
    \/ ResponseArrives
    \/ BodyArrives

SpecRequests == InitRequests /\ [][NextRequests]_vars

\* C31 (as stated): no request is started once the parent signal has fired,
\* and every request in flight is one that an abort of the parent signal
\* cancels.
C31_AsStated ==
    /\ \A n \in 1..Len(requests.started) : ~requests.started[n].afterAbort
    /\ requests.phase \in {"headers", "body"} => requests.listening

\* The request pending when the parent signal fires is aborted.
PendingRequestAborted ==
    [][(~requests.signalAborted /\ requests'.signalAborted
        /\ requests.phase = "headers" /\ requests.listening)
       => \/ requests'.phase = "done" /\ requests'.result = "AbortError"
          \/ requests'.k = requests.k + 1]_vars
====
